---- MODULE Spec2Model ----
(***************************************************************************)
(* A model of coralite-plugin-translation: the two task queues of          *)
(* lib/queue.js, the chunk retry loop of processBlockBatch and the page    *)
(* hook onAfterPageRender of lib/index.js.                                 *)
(*                                                                         *)
(* The specifications of the module:                                  *)
(*   SpecBounded     the bounded-parallel queue, promise reactions one at  *)
(*                   a time (settle, then/catch, finally);                 *)
(*   SpecSequential  the strict sequential (async generator) queue;        *)
(*   SpecPipeline    page hooks running concurrently over the bounded      *)
(*                   queue, the fragment cache and the model calls;        *)
(*   SpecFlush       the saveCache calls chained on savePromise;           *)
(*   SpecClassifier  findTranslatableBlocks over small documents;          *)
(*   SpecCodec       the payload codec, encode, answer, decode;            *)
(*   SpecValidator   validateChunk over pairs of small fragments;          *)
(*   SpecRestore     restoreAttributes over pairs of small fragments.      *)
(* A specification leaves the variables of the others at their initial     *)
(* values.                                                                 *)
(***************************************************************************)
EXTENDS Integers, Sequences, FiniteSets, TLC

(***************************************************************************)
(* Bounds of the model.                                                    *)
(***************************************************************************)
\* add calls made on the bounded queue
MaxTasks == 4
\* largest concurrency given to createTranslationQueue in SpecBounded
MaxConcurrency == 2
\* add calls made on the sequential queue
MaxSeqTasks == 3
\* values a generator-shaped task yields at most
MaxValues == 2

VARIABLES
    \* ---- bounded queue, src/lib/queue.js:8-51
    concurrency,      \* the concurrency parameter
    queue,            \* const queue = []   (task ids, front first)
    activeCount,      \* let activeCount = 0
    bstate,           \* task -> position of the task in its life
    bresult,          \* task -> how the promise returned by fn() settled
    bpromise,         \* task -> state of the promise returned by add
    startOrder,       \* the tasks whose fn was called, in call order
    unhandled,        \* an exception escaped a finally callback
    \* ---- sequential queue, src/lib/queue.js:70-128
    spc,              \* task -> position inside async *add
    skind,            \* task -> what fn() returns: "promise" or "generator"
    entered,          \* tasks in the order they chained onto `queue`
    lock,             \* task -> state of its lockPromise
    chainResolved,    \* how many promises of the chain have resolved
    produced,         \* task -> values yielded to the consumer so far
    sresult,          \* task -> what the consumer last received
    \* ---- the plugin, src/lib/index.js:44-352 (its queue is `queue`,
    \* `activeCount` and `concurrency` above)
    buildPages,       \* the pages the host renders in this build
    optLangs,         \* options.sourceLanguage and options.targetLanguages
    optGiven,         \* what kind of value either of the two is
    plugin,           \* how translation(options) ended
    optRetries,       \* options.retries
    optConcurrency,   \* options.concurrency (0: not given)
    chunkSize,        \* const chunkSize, index.js:52
    cacheFile,        \* content of <cacheDir>/i18n.json
    fragmentCache,    \* let fragmentCache = {}
    cacheLoaded,      \* let cacheLoaded = false
    hpc,              \* page -> position of its onAfterPageRender call
    langIdx,          \* page -> index of the current target language
    phase,            \* page -> which executeBatch call is awaited
    blockTaskMap,     \* page -> const blockTaskMap of the current pass
    newTranslationsMap, \* page -> let newTranslationsMap of the current pass
    chunks,           \* page -> the chunk tasks of the current pass
    generatedPages,   \* page -> const generatedPages (target languages)
    records,          \* page -> the records pushed to generatedPages
    calledModel,      \* page -> the hook call has made a model call
    rendersLeft,      \* page -> times the host will still render the page
    prevRecords,      \* page -> the records the previous hook call returned
    flushes,          \* the saveCache calls chained on savePromise, in call order
    deletedPages,     \* the pages the host has deleted
    buildComplete,    \* the host has completed the build
    \* ---- the classifier, src/lib/block-utils.js:83-157
    root,             \* parsed.root, the AST handed to findTranslatableBlocks
    blocks,           \* const blocks = [] (the paths of the nodes pushed)
    classified,       \* findTranslatableBlocks has returned
    \* ---- the payload codec, src/lib/block-utils.js:204-247
    fragments,        \* the serialized html of each block handed over
    payload,          \* let payload = ''
    mapping,          \* const mapping = []
    response,         \* the string handed to parseTranslatedPayload
    translations,     \* const translations = new Map()
    kpc,              \* position of the round trip
    \* ---- the validator, lib/validation.js (src/unnamed/part_001:273-410)
    vSource,          \* parseHTML(sourceHtml).root
    vTranslated,      \* parseHTML(translatedHtml).root, or not a string
    safety,           \* what validateTranslationSafety returned for the texts
    validation,       \* const validation = validateChunk(...)
    \* ---- restoreAttributes, src/lib/block-utils.js:326-371
    sourceRoot,       \* parseHTML(sourceHtml).root
    translatedRoot,   \* parseHTML(translatedHtml).root
    restored,         \* the tree of the string restoreAttributes returns
    rpc,              \* restoreAttributes has returned
    \* ---- link localization, src/lib/link-utils.js:9-80
    linkTree,         \* the tree handed to processRelativeLinks
    targetLang,       \* its targetLang argument
    relativePagePath, \* its relativePagePath argument
    linked,           \* the tree when processRelativeLinks has returned
    lpc,              \* processRelativeLinks has returned
    \* ---- reconstructBlock, src/lib/block-utils.js:256-297
    blockNode,        \* the block handed to reconstructBlock
    mParsed,          \* parseFn(translatedHtml).root
    merged,           \* the block when reconstructBlock has returned
    mpc,              \* who called reconstructBlock, once it has returned
    \* ---- the text-node flow, lib/service.js:107-292 and its consumer
    textInput,        \* nodes, the cache before the pass, chunkSize, retries
    generator,        \* repairLanguageFields: its position and what it yielded
    consumer          \* currentTaskOffset, newTranslationsMap, fragmentCache

bvars == <<concurrency, queue, activeCount, bstate, bresult, bpromise,
           startOrder, unhandled>>
svars == <<spc, skind, entered, lock, chainResolved, produced, sresult>>
pvars == <<buildPages, optLangs, optGiven, plugin, optRetries, optConcurrency, chunkSize, cacheFile, fragmentCache,
           cacheLoaded, hpc, langIdx, phase, blockTaskMap, newTranslationsMap,
           chunks, generatedPages, records, calledModel, rendersLeft,
           prevRecords, flushes, deletedPages, buildComplete>>
taskvars == <<bstate, bresult, bpromise, startOrder, unhandled>>
cvars == <<root, blocks, classified>>
kvars == <<fragments, payload, mapping, response, translations, kpc>>
vvars == <<vSource, vTranslated, validation, safety>>
rvars == <<sourceRoot, translatedRoot, restored, rpc>>
lvars == <<linkTree, targetLang, relativePagePath, linked, lpc>>
mvars == <<blockNode, mParsed, merged, mpc>>
xvars == <<textInput, generator, consumer>>
purevars == <<cvars, kvars, vvars, rvars, lvars, mvars, xvars>>
vars == <<bvars, svars, pvars, purevars>>
notBounded == <<svars, pvars, purevars>>
notSequential == <<bvars, pvars, purevars>>
notPipeline == <<svars, taskvars, purevars>>
queuevars == <<bvars, svars, pvars>>
notClassifier == <<queuevars, kvars, vvars, rvars, lvars, mvars, xvars>>
notCodec == <<queuevars, cvars, vvars, rvars, lvars, mvars, xvars>>
notValidator == <<queuevars, cvars, kvars, rvars, lvars, mvars, xvars>>
notRestore == <<queuevars, cvars, kvars, vvars, lvars, mvars, xvars>>
notLinks == <<queuevars, cvars, kvars, vvars, rvars, mvars, xvars>>
notMerge == <<queuevars, cvars, kvars, vvars, rvars, lvars, xvars>>
notTextFlow == <<queuevars, cvars, kvars, vvars, rvars, lvars, mvars>>

(***************************************************************************)
(* The bounded queue: createTranslationQueue (concurrency = 1).            *)
(***************************************************************************)
Tasks == 1..MaxTasks

\* Tasks are numbered in the order add is called.
Added == {t \in Tasks : bstate[t] # "new"}

\* Tasks whose fn() has been called and whose promise has not settled.
Running == {t \in Tasks : bstate[t] = "running"}

\* Tasks between activeCount++ and the activeCount-- of their finally.
HoldingSlot == {t \in Tasks : bstate[t] \in {"running", "settled", "delivered"}}

\* queue.js:13, negated: next() goes on to start a task.
CanStartOffByOne(ac, conc, q) == ~(ac > conc \/ Len(q) = 0)
CanStart(ac, conc, q) == ~(ac >= conc \/ Len(q) = 0)

\* queue.js:17, queue.shift(): <<the task taken, the queue left>>.
ShiftLifo(q) == <<q[Len(q)], SubSeq(q, 1, Len(q) - 1)>>
Shift(q) == <<Head(q), Tail(q)>>

BInit ==
    /\ concurrency \in 1..MaxConcurrency
    /\ queue = <<>>
    /\ activeCount = 0
    /\ bstate = [t \in Tasks |-> "new"]
    /\ bresult = [t \in Tasks |-> <<"none">>]
    /\ bpromise = [t \in Tasks |-> <<"pending">>]
    /\ startOrder = <<>>
    /\ unhandled = FALSE

\* queue.js:12-30, next(), called with task `caller` being added (0 when
\* called from a finally callback).  `throws` is whether fn() of the task
\* taken throws synchronously: the exception leaves next() after
\* activeCount++ and before the promise chain is built.
BNext(q, ac, st, caller, throws) ==
    IF ~CanStart(ac, concurrency, q)
    THEN /\ queue' = q
         /\ activeCount' = ac
         /\ bstate' = st
         /\ UNCHANGED <<bpromise, startOrder, unhandled>>
    ELSE LET s == Shift(q)[1] IN
         /\ queue' = Shift(q)[2]
         /\ activeCount' = ac + 1
         /\ startOrder' = Append(startOrder, s)
         /\ IF throws
            THEN /\ bstate' = [st EXCEPT ![s] = "thrown"]
                 \* the executor of add's promise catches it (queue.js:41),
                 \* a finally callback has nobody to catch it
                 /\ bpromise' = IF caller # 0
                                THEN [bpromise EXCEPT ![caller] = <<"rejected", s>>]
                                ELSE bpromise
                 /\ unhandled' = (unhandled \/ caller = 0)
            ELSE /\ bstate' = [st EXCEPT ![s] = "running"]
                 /\ UNCHANGED <<bpromise, unhandled>>

\* queue.js:40-49, add(fn)
BAdd(t, throws) ==
    /\ bstate[t] = "new"
    /\ \A u \in Tasks : u < t => bstate[u] # "new"
    /\ BNext(Append(queue, t), activeCount, [bstate EXCEPT ![t] = "queued"], t, throws)
    /\ UNCHANGED <<concurrency, bresult>>
    /\ UNCHANGED notBounded

\* the promise returned by fn() settles: a value or an error of the task
BSettle(t, ok) ==
    /\ bstate[t] = "running"
    /\ bstate' = [bstate EXCEPT ![t] = "settled"]
    /\ bresult' = [bresult EXCEPT ![t] = IF ok THEN <<"value", t>> ELSE <<"error", t>>]
    /\ UNCHANGED <<concurrency, queue, activeCount, bpromise, startOrder, unhandled>>
    /\ UNCHANGED notBounded

\* queue.js:24-25, .then(resolve).catch(reject)
Deliver(r) == IF r[1] = "value" THEN <<"resolved", r[2]>> ELSE <<"rejected", r[2]>>

BDeliver(t) ==
    /\ bstate[t] = "settled"
    /\ bstate' = [bstate EXCEPT ![t] = "delivered"]
    \* resolving or rejecting a promise that is already settled does nothing
    /\ bpromise' = IF bpromise[t] = <<"pending">>
                   THEN [bpromise EXCEPT ![t] = Deliver(bresult[t])]
                   ELSE bpromise
    /\ UNCHANGED <<concurrency, queue, activeCount, bresult, startOrder, unhandled>>
    /\ UNCHANGED notBounded

\* queue.js:26-29, .finally(() => { activeCount--; next() })
BFinally(t, throws) ==
    /\ bstate[t] = "delivered"
    /\ BNext(queue, activeCount - 1, [bstate EXCEPT ![t] = "done"], 0, throws)
    /\ UNCHANGED <<concurrency, bresult>>
    /\ UNCHANGED notBounded

BoundedNext ==
    \/ \E t \in Tasks, throws \in BOOLEAN : BAdd(t, throws)
    \/ \E t \in Tasks, ok \in BOOLEAN : BSettle(t, ok)
    \/ \E t \in Tasks : BDeliver(t)
    \/ \E t \in Tasks, throws \in BOOLEAN : BFinally(t, throws)

(***************************************************************************)
(* The sequential queue: createTranslationQueue () with async *add(fn).    *)
(* The body of an async generator runs only when its consumer asks for a   *)
(* value, so a task chains onto `queue` at the first next() of its         *)
(* consumer.  `queue` is a chain of promises: the promise chained by the   *)
(* k-th task resolves once the one before it has resolved and the k-th     *)
(* lockPromise has been released (queue.js:97).                            *)
(***************************************************************************)
SeqTasks == 1..MaxSeqTasks

\* position of task t in the chain (0: has not chained yet)
ChainPos(t) ==
    IF \E i \in 1..Len(entered) : entered[i] = t
    THEN CHOOSE i \in 1..Len(entered) : entered[i] = t
    ELSE 0

\* Tasks whose fn() has been called and that have not run to completion.
Executing == {t \in SeqTasks : spc[t] \in {"executing", "yielded"}}

\* Tasks that ran to completion, with a value, an error or a consumer's return().
Completed == {t \in SeqTasks : spc[t] \in {"done", "failed"}}

\* queue.js:100, await previousQueue: previousQueue is the promise chained by
\* the task before t (the initial Promise.resolve() for the first task).
PreviousQueueResolvedNoWait(t) == TRUE
PreviousQueueResolved(t) == chainResolved >= ChainPos(t) - 1

\* queue.js:111-113, 118-120, 123: the state of the lock after the finally
\* blocks and the catch block of a task that ends with a failure.
LockAfterFailureKept(l) == l
LockAfterFailure(l) == "released"

SInit ==
    /\ spc = [t \in SeqTasks |-> "idle"]
    /\ skind \in [SeqTasks -> {"promise", "generator"}]
    /\ entered = <<>>
    /\ lock = [t \in SeqTasks |-> "none"]
    /\ chainResolved = 0
    /\ produced = [t \in SeqTasks |-> 0]
    /\ sresult = [t \in SeqTasks |-> <<"none">>]

SIdle ==
    /\ spc = [t \in SeqTasks |-> "idle"]
    /\ skind = [t \in SeqTasks |-> "promise"]
    /\ entered = <<>>
    /\ lock = [t \in SeqTasks |-> "none"]
    /\ chainResolved = 0
    /\ produced = [t \in SeqTasks |-> 0]
    /\ sresult = [t \in SeqTasks |-> <<"none">>]

\* queue.js:86-100: the consumer's first next() runs the body up to
\* `await previousQueue`: a new lock, and the chain grows by one promise.
SEnter(t) ==
    /\ spc[t] = "idle"
    /\ spc' = [spc EXCEPT ![t] = "waiting"]
    /\ lock' = [lock EXCEPT ![t] = "held"]
    /\ entered' = Append(entered, t)
    /\ UNCHANGED <<skind, chainResolved, produced, sresult>>
    /\ UNCHANGED notSequential

\* queue.js:97: the promise chained by the next task in line resolves.
SChainResolve ==
    /\ chainResolved < Len(entered)
    /\ lock[entered[chainResolved + 1]] = "released"
    /\ chainResolved' = chainResolved + 1
    /\ UNCHANGED <<spc, skind, entered, lock, produced, sresult>>
    /\ UNCHANGED notSequential

\* queue.js:100-105: previousQueue has resolved and fn() is called.  When it
\* throws, the catch block releases the lock and rethrows (queue.js:122-125).
SStart(t, throws) ==
    /\ spc[t] = "waiting"
    /\ PreviousQueueResolved(t)
    /\ IF throws
       THEN /\ spc' = [spc EXCEPT ![t] = "failed"]
            /\ lock' = [lock EXCEPT ![t] = LockAfterFailure(lock[t])]
            /\ sresult' = [sresult EXCEPT ![t] = <<"error", t>>]
       ELSE /\ spc' = [spc EXCEPT ![t] = "executing"]
            /\ UNCHANGED <<lock, sresult>>
    /\ UNCHANGED <<skind, entered, chainResolved, produced>>
    /\ UNCHANGED notSequential

\* queue.js:108-109 and 117: the task hands over a value (the next value of
\* its generator, or the value of its promise) and add yields it.
SYield(t) ==
    /\ spc[t] = "executing"
    /\ produced[t] < (IF skind[t] = "generator" THEN MaxValues ELSE 1)
    /\ spc' = [spc EXCEPT ![t] = "yielded"]
    /\ produced' = [produced EXCEPT ![t] = @ + 1]
    /\ sresult' = [sresult EXCEPT ![t] = <<"value", t>>]
    /\ UNCHANGED <<skind, entered, lock, chainResolved>>
    /\ UNCHANGED notSequential

\* queue.js:108-113: the generator of the task is exhausted; the finally
\* block releases the lock and add returns.
SFinish(t) ==
    /\ spc[t] = "executing"
    /\ skind[t] = "generator"
    /\ spc' = [spc EXCEPT ![t] = "done"]
    /\ lock' = [lock EXCEPT ![t] = "released"]
    /\ sresult' = [sresult EXCEPT ![t] = <<"end">>]
    /\ UNCHANGED <<skind, entered, chainResolved, produced>>
    /\ UNCHANGED notSequential

\* queue.js:108-125: the promise of the task rejects or its generator
\* throws: finally, then catch, then the error goes to the consumer.
SFail(t) ==
    /\ spc[t] = "executing"
    /\ spc' = [spc EXCEPT ![t] = "failed"]
    /\ lock' = [lock EXCEPT ![t] = LockAfterFailure(lock[t])]
    /\ sresult' = [sresult EXCEPT ![t] = <<"error", t>>]
    /\ UNCHANGED <<skind, entered, chainResolved, produced>>
    /\ UNCHANGED notSequential

\* The consumer asks for the next value.  After the value of a promise the
\* finally block runs and add returns (queue.js:117-120); a generator is
\* asked for its next value (queue.js:108).
SResume(t) ==
    /\ spc[t] = "yielded"
    /\ IF skind[t] = "generator"
       THEN /\ spc' = [spc EXCEPT ![t] = "executing"]
            /\ UNCHANGED <<lock, sresult>>
       ELSE /\ spc' = [spc EXCEPT ![t] = "done"]
            /\ lock' = [lock EXCEPT ![t] = "released"]
            /\ sresult' = [sresult EXCEPT ![t] = <<"end">>]
    /\ UNCHANGED <<skind, entered, chainResolved, produced>>
    /\ UNCHANGED notSequential

\* The consumer leaves its loop early: return() at the yield closes the
\* generator of the task (for await) and runs the finally block.
SReturn(t) ==
    /\ spc[t] = "yielded"
    /\ spc' = [spc EXCEPT ![t] = "done"]
    /\ lock' = [lock EXCEPT ![t] = "released"]
    /\ sresult' = [sresult EXCEPT ![t] = <<"end">>]
    /\ UNCHANGED <<skind, entered, chainResolved, produced>>
    /\ UNCHANGED notSequential

SequentialNext ==
    \/ \E t \in SeqTasks : SEnter(t)
    \/ SChainResolve
    \/ \E t \in SeqTasks, throws \in BOOLEAN : SStart(t, throws)
    \/ \E t \in SeqTasks : SYield(t)
    \/ \E t \in SeqTasks : SFinish(t)
    \/ \E t \in SeqTasks : SFail(t)
    \/ \E t \in SeqTasks : SResume(t)
    \/ \E t \in SeqTasks : SReturn(t)

BIdle ==
    /\ concurrency = 1
    /\ queue = <<>>
    /\ activeCount = 0
    /\ bstate = [t \in Tasks |-> "new"]
    /\ bresult = [t \in Tasks |-> <<"none">>]
    /\ bpromise = [t \in Tasks |-> <<"pending">>]
    /\ startOrder = <<>>
    /\ unhandled = FALSE

(***************************************************************************)
(* The plugin: translation(options) and its hook onAfterPageRender.        *)
(* The host calls the hook once per rendered page and the calls overlap.   *)
(* A page is the list of its translatable blocks in document order; a      *)
(* block is known by the HTML of its children and by whether it is a code  *)
(* block.                                                                  *)
(***************************************************************************)
None == <<"none">>

\* index.js:54
DefaultRetries == 3
\* index.js:47
DefaultConcurrency == 4
\* largest options.retries and options.concurrency of the model
MaxOptRetries == 2
MaxOptConcurrency == 2
\* times the host renders a page at most
MaxRenders == 2

\* options.sourceLanguage and options.targetLanguages of the model: the
\* configuration of the README (line 121-122) and one with region codes
ReadmeLanguages == [source |-> "en", targets |-> <<"fr", "en", "es">>]
LanguageOptions == {ReadmeLanguages, [source |-> "en-US", targets |-> <<"en-US", "fr">>]}

\* What options.sourceLanguage is: not given, '' or a language code; what
\* options.targetLanguages is: not given, a string or an array.
GivenOptions ==
    [sourceLanguage : {"undefined", "empty string", "string"},
     targetLanguages : {"undefined", "string", "array"}]
BothGiven == [sourceLanguage |-> "string", targetLanguages |-> "array"]

\* part_001:7-14 (service.js:300-307): the error validateOptions throws,
\* "none" when it returns
SourceLanguageError == "Translation plugin requires \"sourceLanguage\" option."
TargetLanguagesError == "Translation plugin requires \"targetLanguages\" array option."
Falsy(given) == given \in {"undefined", "empty string"}
ValidateOptionsSourceOnly(given) ==
    IF Falsy(given.sourceLanguage) THEN SourceLanguageError ELSE "none"
ValidateOptions(given) ==
    IF Falsy(given.sourceLanguage) THEN SourceLanguageError
    ELSE IF Falsy(given.targetLanguages) \/ given.targetLanguages # "array"
    THEN TargetLanguagesError
    ELSE "none"

\* String.prototype.toLowerCase on the language codes of the model
ToLowerCase(l) == IF l = "en-US" THEN "en-us" ELSE l

\* index.js:147-148: the target languages are lowercased, the source
\* language is taken as configured
SourceLanguage == optLangs.source
TargetLanguages == [i \in DOMAIN optLangs.targets |-> ToLowerCase(optLangs.targets[i])]

\* index.js:168-169: the languages the loop makes a pass for
PassLangs == SelectSeq(TargetLanguages, LAMBDA l : l # SourceLanguage)

\* values of options.chunkSize in the model: 2 in every build, and in the
\* builds of one page also 1, 3 and none (0)
OptChunkSizes == {2}
AllOptChunkSizes == {0, 1, 2, 3}
\* index.js:52: options.chunkSize || 10
DefaultChunkSize == 10
ChunkSize(o) == IF o = 0 THEN DefaultChunkSize ELSE o

\* A block without translatable attributes, and one with: the HTML of its
\* children and the HTML of the whole element.
\* block.name, and whether block.children holds an element named code
Named(name, codeChild, inner) ==
    [inner |-> inner, name |-> name, codeChild |-> codeChild, attrs |-> FALSE,
     outer |-> <<inner>>]
Block(inner, code) == Named(IF code THEN "code" ELSE "p", FALSE, inner)
AttrBlock(inner, outer) ==
    [inner |-> inner, name |-> "a", codeChild |-> FALSE, attrs |-> TRUE, outer |-> outer]

\* findTranslatableBlocks(parsed.root, blocks) of each page (index.js:172-174):
\* two pages of text and code, a page of two links with the same text and
\* different titles, a page without text, (PagePaths) a page under a
\* target language and an excluded page, and a page of two pre blocks, one
\* of plain text and one that wraps a code element
PageBlocks ==
    << <<Block("h1", FALSE), Block("h2", FALSE), Block("h3", FALSE)>>,
       <<Block("h2", FALSE), Block("c1", TRUE)>>,
       <<AttrBlock("x", "a1"), AttrBlock("x", "a2")>>,
       <<>>,
       <<Block("h1", FALSE)>>,
       <<Block("h1", FALSE)>>,
       <<Named("pre", FALSE, "t1"), Named("pre", TRUE, "c2")>> >>

\* this.options.pages, and path.pathname of each page, as path segments
PagesRoot == <<"site", "pages">>
PagePaths ==
    << PagesRoot \o <<"index.html">>,
       PagesRoot \o <<"docs", "about.html">>,
       PagesRoot \o <<"links.html">>,
       PagesRoot \o <<"empty.html">>,
       PagesRoot \o <<"fr", "index.html">>,
       PagesRoot \o <<"drafts", "new.html">>,
       PagesRoot \o <<"guide.html">> >>

\* options.exclude (index.js:161)
Exclude == {"drafts"}

\* the pages rendered in parallel in a build of several pages
OverlapPages == {1, 2}

\* a page and the record the hook returns for it in French, which the host
\* passes to the hook as a page of its own
FedBackPages == {1, 5}

Pages == DOMAIN PageBlocks

BlockIds(p) == DOMAIN PageBlocks[p]

\* index.js:183: serializeNode({ children: block.children })
SourceHtml(b) == b.inner

\* index.js:185, utils computeHash: an MD5 digest, taken as free of collisions
ComputeHash(html) == <<"md5", html>>

\* block-utils.js:209-210: the outer HTML of a block with translatable
\* attributes, the inner HTML of any other
OriginalHtml(b) == IF b.attrs THEN b.outer ELSE b.inner

\* node:path relative(from, to) for a file below `from`
Relative(from, to) == SubSeq(to, Len(from) + 1, Len(to))

\* index.js:146: relativePath
RelativePath(p) == Relative(PagesRoot, PagePaths[p])

\* index.js:151-159: the page is under the prefix of a target language
UnderPrefixAsConfigured(rel) ==
    \E i \in DOMAIN optLangs.targets :
        /\ optLangs.targets[i] # SourceLanguage
        /\ Head(rel) = optLangs.targets[i]
UnderPrefix(rel) ==
    \E i \in DOMAIN TargetLanguages :
        /\ TargetLanguages[i] # SourceLanguage
        /\ Head(rel) = TargetLanguages[i]

UnderTargetPrefix(p) == UnderPrefix(RelativePath(p))

\* index.js:161-163
Excluded(p) == \E i \in DOMAIN PagePaths[p] : PagePaths[p][i] \in Exclude

\* index.js:312-326 and 337-345: the record pushed for language l, its
\* pathname join(this.options.pages, targetLang, relativePath); the html is
\* the page with the translation of each block in place and its links
\* localized for l
Record(p, l, translated) ==
    [lang |-> l, pathname |-> PagesRoot \o <<l>> \o RelativePath(p), html |-> <<l, translated>>]

\* index.js:130-137: a code element, or a pre element with a code child
IsCodeBlock(b) == b.name = "code" \/ (b.name = "pre" /\ b.codeChild)

\* index.js:47 and 54: a || default
Retries == IF optRetries = 0 THEN DefaultRetries ELSE optRetries
Concurrency == IF optConcurrency = 0 THEN DefaultConcurrency ELSE optConcurrency

\* A translation returned by the model: the fragment it is a rendering of
\* and whether that rendering keeps its tags, attributes and length ratio.
Translation(html, q) == <<html, q>>

\* part_001:273-410, validateChunk(sourceHtml, translatedHtml).isValid
ValidateChunk(sourceHtml, translatedHtml) ==
    /\ translatedHtml # None
    /\ translatedHtml[1] = sourceHtml
    /\ translatedHtml[2] = "good"

\* the cache as a map from <<hash, language>> to a translation
CacheHas(c, h, l) == <<h, l>> \in DOMAIN c
CachePut(c, h, l, v) == [k \in DOMAIN c \cup {<<h, l>>} |-> IF k = <<h, l>> THEN v ELSE c[k]]
EmptyCache == [k \in {} |-> None]

\* contents of i18n.json before the run: none or unreadable, or a cache
\* written by an earlier run
InitialCacheFiles ==
    { <<"unreadable">>,
      <<"json", CachePut(EmptyCache, ComputeHash("h2"), "fr", Translation("h2", "good"))>> }

\* index.js:104-113, loadCache: JSON.parse of the file, {} when it fails
LoadedCache(file) == IF file[1] = "json" THEN file[2] ELSE EmptyCache

\* index.js:122: JSON.stringify(fragmentCache, null, 2)
Stringified(c) == <<"json", c>>

Min(a, b) == IF a < b THEN a ELSE b

\* index.js:216-221: the slices tasks.slice(i, i + chunkSize)
ChunkCountFloor(n, size) == n \div size
ChunkCount(n, size) == (n + size - 1) \div size
Slices(tasks, size) ==
    [k \in 1..ChunkCount(Len(tasks), size) |->
        SubSeq(tasks, (k - 1) * size + 1, Min(k * size, Len(tasks)))]

\* block-utils.js:204-226, prepareTranslationPayload: one mapping entry per
\* block, its index the position in the chunk counted from 0
Mapping(p, chunk) ==
    [i \in 1..Len(chunk) |->
        [index |-> i - 1, block |-> chunk[i],
         originalHtml |-> OriginalHtml(PageBlocks[p][chunk[i]])]]

\* The part of the state a stretch of synchronous code of the hook works
\* on, as one record.
PState ==
    [q |-> queue, ac |-> activeCount, chunks |-> chunks, phase |-> phase,
     hpc |-> hpc, li |-> langIdx, btm |-> blockTaskMap,
     ntm |-> newTranslationsMap, gen |-> generatedPages, rec |-> records,
     cm |-> calledModel]

Commit(S) ==
    /\ queue' = S.q
    /\ activeCount' = S.ac
    /\ chunks' = S.chunks
    /\ phase' = S.phase
    /\ hpc' = S.hpc
    /\ langIdx' = S.li
    /\ blockTaskMap' = S.btm
    /\ newTranslationsMap' = S.ntm
    /\ generatedPages' = S.gen
    /\ records' = S.rec
    /\ calledModel' = S.cm

\* queue.js:12-30 for the plugin's tasks (async functions, which never throw
\* synchronously): the queue, the count and the tasks started
QNextNoLimit(q, ac) ==
    IF Len(q) > 0
    THEN [q |-> Tail(q), ac |-> ac + 1, started |-> {Head(q)}]
    ELSE [q |-> q, ac |-> ac, started |-> {}]
QNext(q, ac) ==
    IF CanStart(ac, concurrency, q)
    THEN [q |-> Shift(q)[2], ac |-> ac + 1, started |-> {Shift(q)[1]}]
    ELSE [q |-> q, ac |-> ac, started |-> {}]

\* index.js:219-252: queue.add for each chunk in turn (push, then next())
RECURSIVE AddAll(_, _, _, _)
AddAll(tasks, q, ac, started) ==
    IF tasks = <<>>
    THEN [q |-> q, ac |-> ac, started |-> started]
    ELSE LET r == QNext(Append(q, Head(tasks)), ac)
         IN AddAll(Tail(tasks), r.q, r.ac, started \cup r.started)

\* A chunk task that has been started: its payload is built and the first
\* model call of processBlockBatch is in flight with the whole retry budget
\* (index.js:224-229).
StartedChunk(c) == [c EXCEPT !.st = "call", !.left = Retries, !.calls = 1]

\* the chunk tasks after the tasks in `started` began
WithStarted(cs, started) ==
    [p \in Pages |->
        [k \in DOMAIN cs[p] |->
            IF <<p, k>> \in started THEN StartedChunk(cs[p][k]) ELSE cs[p][k]]]

\* the hook calls that have made a model call, after the tasks in `started`
\* began
WithCalls(cm, started) ==
    [p \in Pages |-> cm[p] \/ \E pk \in started : pk[1] = p]

\* The chunk tasks of the passes under way, and those whose model call is
\* in flight.
ChunkIds == UNION {{<<p, k>> : k \in DOMAIN chunks[p]} : p \in Pages}
InFlight == {pk \in ChunkIds : chunks[pk[1]][pk[2]].st = "call"}

\* The options of a build whose pages are rendered in parallel.
OverlapOptions == [retries |-> 1, concurrency |-> 2]

\* a build of one page, rendered once, with the README languages and the
\* retries and concurrency of the parallel builds
PlainBuildOfOnePage ==
    /\ Cardinality(buildPages) = 1
    /\ optRetries = OverlapOptions.retries
    /\ optConcurrency = OverlapOptions.concurrency
    /\ optLangs = ReadmeLanguages
    /\ optGiven = BothGiven
    /\ \A p \in Pages : rendersLeft[p] <= 1

\* A build renders one page once under any retries and concurrency, or one
\* page several times and under any of the language options, or the pages
\* of OverlapPages in parallel; the latter two under OverlapOptions.
PInit ==
    /\ \/ /\ buildPages \in {{p} : p \in Pages}
          /\ optRetries \in 0..MaxOptRetries
          /\ optConcurrency \in 0..MaxOptConcurrency
          /\ optLangs = ReadmeLanguages
          /\ optGiven = BothGiven
          /\ rendersLeft = [p \in Pages |-> IF p \in buildPages THEN 1 ELSE 0]
       \/ /\ buildPages \in {{p} : p \in Pages}
          /\ optRetries = OverlapOptions.retries
          /\ optConcurrency = OverlapOptions.concurrency
          /\ optLangs = ReadmeLanguages
          /\ optGiven \in GivenOptions \ {BothGiven}
          /\ rendersLeft = [p \in Pages |-> IF p \in buildPages THEN 1 ELSE 0]
       \/ /\ buildPages \in {{p} : p \in Pages}
          /\ optRetries = OverlapOptions.retries
          /\ optConcurrency = OverlapOptions.concurrency
          /\ optLangs \in LanguageOptions
          /\ optGiven = BothGiven
          /\ \E n \in 1..MaxRenders :
                rendersLeft = [p \in Pages |-> IF p \in buildPages THEN n ELSE 0]
       \/ /\ buildPages \in {OverlapPages, FedBackPages}
          /\ optLangs = ReadmeLanguages
          /\ optGiven = BothGiven
          /\ optRetries = OverlapOptions.retries
          /\ optConcurrency = OverlapOptions.concurrency
          /\ rendersLeft = [p \in Pages |-> IF p \in buildPages THEN 1 ELSE 0]
    /\ plugin = "none"
    /\ records = [p \in Pages |-> <<>>]
    /\ calledModel = [p \in Pages |-> FALSE]
    /\ prevRecords = [p \in Pages |-> <<>>]
    /\ flushes = <<>>
    /\ deletedPages = {}
    /\ buildComplete = FALSE
    /\ concurrency = Concurrency
    /\ \E o \in AllOptChunkSizes :
          /\ o \in OptChunkSizes \/ PlainBuildOfOnePage
          /\ chunkSize = ChunkSize(o)
    /\ queue = <<>>
    /\ activeCount = 0
    /\ cacheFile \in InitialCacheFiles
    /\ fragmentCache = EmptyCache
    /\ cacheLoaded = FALSE
    /\ hpc = [p \in Pages |-> "idle"]
    /\ langIdx = [p \in Pages |-> 1]
    /\ phase = [p \in Pages |-> "none"]
    /\ blockTaskMap = [p \in Pages |-> <<>>]
    /\ newTranslationsMap = [p \in Pages |-> <<>>]
    /\ chunks = [p \in Pages |-> <<>>]
    /\ generatedPages = [p \in Pages |-> {}]

\* the plugin is set up and no hook is called
HooksIdle ==
    /\ buildPages = {}
    /\ optLangs = ReadmeLanguages
    /\ optGiven = BothGiven
    /\ plugin = "created"
    /\ deletedPages = {}
    /\ buildComplete = FALSE
    /\ rendersLeft = [p \in Pages |-> 0]
    /\ records = [p \in Pages |-> <<>>]
    /\ calledModel = [p \in Pages |-> FALSE]
    /\ prevRecords = [p \in Pages |-> <<>>]
    /\ optRetries = 0
    /\ optConcurrency = 0
    /\ chunkSize = 1
    /\ hpc = [p \in Pages |-> "idle"]
    /\ langIdx = [p \in Pages |-> 1]
    /\ phase = [p \in Pages |-> "none"]
    /\ blockTaskMap = [p \in Pages |-> <<>>]
    /\ newTranslationsMap = [p \in Pages |-> <<>>]
    /\ chunks = [p \in Pages |-> <<>>]
    /\ generatedPages = [p \in Pages |-> {}]

PIdle ==
    /\ HooksIdle
    /\ cacheFile = <<"unreadable">>
    /\ fragmentCache = EmptyCache
    /\ cacheLoaded = FALSE
    /\ flushes = <<>>

TIdle ==
    /\ bstate = [t \in Tasks |-> "new"]
    /\ bresult = [t \in Tasks |-> <<"none">>]
    /\ bpromise = [t \in Tasks |-> <<"pending">>]
    /\ startOrder = <<>>
    /\ unhandled = FALSE

\* index.js:182-209: the entry of blockTaskMap for block b in language l
Lookup(cache, b, l) ==
    LET hash == ComputeHash(SourceHtml(b))
    IN IF CacheHas(cache, hash, l)
       THEN <<"cached", cache[<<hash, l>>]>>
       ELSE IF IsCodeBlock(b) THEN <<"task", "code">> ELSE <<"task", "standard">>

\* standardTasks and codeTasks: the blocks of a kind, in document order
TasksOf(btm, kind) ==
    SelectSeq([i \in DOMAIN btm |-> i], LAMBDA i : btm[i] = <<"task", kind>>)

\* index.js:213-255, executeBatch(tasks, ...) up to await Promise.all: the
\* chunk tasks are created (they follow those of the pass so far) and added
\* to the queue, which starts some
Submit(S, p, tasks, ph) ==
    LET sl == Slices(tasks, chunkSize)
        n == Len(S.chunks[p])
        fresh == [k \in DOMAIN sl |->
                    [blocks |-> sl[k], st |-> "queued", left |-> 0, calls |-> 0]]
        r == AddAll([k \in DOMAIN sl |-> <<p, n + k>>], S.q, S.ac, {})
    IN [S EXCEPT !.chunks = WithStarted([S.chunks EXCEPT ![p] = @ \o fresh], r.started),
                 !.cm = WithCalls(@, r.started),
                 !.q = r.q, !.ac = r.ac, !.phase[p] = ph, !.hpc[p] = "batch"]

\* index.js:168-349: the loop over the target languages from the language
\* at S.li[p] up to the next await: a page without blocks gets its record
\* at once; otherwise the cache lookups, then the first executeBatch call,
\* or saveCache when every block is cached; after the last language the
\* hook returns generatedPages and the maps and tasks of its last pass are
\* no more
RECURSIVE BeginPass(_, _, _)
BeginPass(S, p, cache) ==
    IF S.li[p] > Len(PassLangs)
    THEN [S EXCEPT !.hpc[p] = "returned", !.phase[p] = "none", !.btm[p] = <<>>,
                   !.ntm[p] = <<>>, !.chunks[p] = <<>>]
    ELSE LET l == PassLangs[S.li[p]] IN
         IF Len(PageBlocks[p]) = 0
         THEN BeginPass([S EXCEPT !.gen[p] = @ \cup {l}, !.li[p] = @ + 1,
                                  !.rec[p] = Append(@, Record(p, l, <<>>))], p, cache)
         ELSE LET btm == [i \in BlockIds(p) |-> Lookup(cache, PageBlocks[p][i], l)]
                  std == TasksOf(btm, "standard")
                  code == TasksOf(btm, "code")
                  S1 == [S EXCEPT !.btm[p] = btm, !.chunks[p] = <<>>,
                                  !.ntm[p] = [i \in BlockIds(p) |-> None]]
              IN IF Len(std) > 0 THEN Submit(S1, p, std, "std")
                 ELSE IF Len(code) > 0 THEN Submit(S1, p, code, "code")
                 ELSE [S1 EXCEPT !.hpc[p] = "saving"]

\* index.js:146-166: a page under the prefix of a target language, or an
\* excluded one, is left alone (the hook returns undefined); any other page
\* gets an empty generatedPages and the loop over the languages begins
Enter(S, p, cache) ==
    IF UnderTargetPrefix(p) \/ Excluded(p)
    THEN [S EXCEPT !.hpc[p] = "returned"]
    ELSE BeginPass(S, p, cache)

\* index.js:141-144: the host calls the hook for a page it has rendered,
\* for the first time or again after the call before has returned; the call
\* reads the cache file when no call has finished reading it
HookStart(p) ==
    /\ plugin = "created"
    /\ p \in buildPages
    /\ hpc[p] \in {"idle", "returned"}
    /\ rendersLeft[p] > 0
    /\ rendersLeft' = [rendersLeft EXCEPT ![p] = @ - 1]
    /\ prevRecords' = [prevRecords EXCEPT ![p] = IF hpc[p] = "returned" THEN records[p] ELSE <<>>]
    /\ LET S == [PState EXCEPT !.li[p] = 1, !.gen[p] = {}, !.rec[p] = <<>>,
                               !.cm[p] = FALSE, !.phase[p] = "none"]
       IN IF cacheLoaded
          THEN Commit(Enter(S, p, fragmentCache))
          ELSE Commit([S EXCEPT !.hpc[p] = "loading"])
    /\ UNCHANGED <<deletedPages, buildComplete, flushes, buildPages, optLangs, optRetries, optConcurrency, chunkSize, cacheFile, fragmentCache,
                   cacheLoaded, concurrency>>
    /\ UNCHANGED <<optGiven, plugin>>
    /\ UNCHANGED notPipeline

\* index.js:104-113 and 143: readFile has answered; the first pass begins
LoadDone(p) ==
    /\ hpc[p] = "loading"
    /\ fragmentCache' = LoadedCache(cacheFile)
    /\ cacheLoaded' = TRUE
    /\ Commit(Enter(PState, p, LoadedCache(cacheFile)))
    /\ UNCHANGED <<deletedPages, buildComplete, flushes, buildPages, optLangs, optRetries, optConcurrency, chunkSize, cacheFile, concurrency,
                   rendersLeft, prevRecords>>
    /\ UNCHANGED <<optGiven, plugin>>
    /\ UNCHANGED notPipeline

\* What the model can answer for a chunk: at each index of the mapping, and
\* at one index beyond it, nothing or a translation.  The answers of the
\* model are the complete one, with and without an extra chunk, and those
\* with one index missing, badly translated, or holding a good translation
\* of another fragment of the chunk.
Complete(m) ==
    [i \in 0..Len(m) |->
        IF i < Len(m) THEN Translation(m[i + 1].originalHtml, "good") ELSE None]

Answers(m) ==
    LET full == Complete(m)
        idx == 0..(Len(m) - 1)
    IN {full, [full EXCEPT ![Len(m)] = Translation(m[1].originalHtml, "bad")]}
       \cup {[full EXCEPT ![i] = None] : i \in idx}
       \cup {[full EXCEPT ![i] = Translation(m[i + 1].originalHtml, "bad")] : i \in idx}
       \cup {[full EXCEPT ![i] = full[j]] : i \in idx, j \in idx}

\* a failed call (non-2xx status, network error, a body that is not the
\* expected JSON) or the content of the first choice
Responses(m) ==
    {<<"error">>} \cup {<<"content", a>> : a \in Answers(m)}

\* part_000:62-87: the attempt succeeds when the call succeeded and every
\* item of the mapping has a translation that passes validateChunk
AttemptValidFirstOnly(m, resp) ==
    /\ resp[1] = "content"
    /\ resp[2][m[1].index] # None
    /\ ValidateChunk(m[1].originalHtml, resp[2][m[1].index])
AttemptValid(m, resp) ==
    /\ resp[1] = "content"
    /\ \A i \in DOMAIN m :
          /\ resp[2][m[i].index] # None
          /\ ValidateChunk(m[i].originalHtml, resp[2][m[i].index])

\* part_000:88-93: after a failed attempt another call is made
ShouldRetry(left) == left > 0

\* index.js:231-243: the translations of a successful chunk go to
\* newTranslationsMap and to fragmentCache
StoreFirst(m, resp, p, l, acc) ==
    IF m = <<>> THEN acc
    ELSE [ntm |-> [acc.ntm EXCEPT ![Head(m).block] = resp[2][Head(m).index]],
          cache |-> CachePut(acc.cache, ComputeHash(SourceHtml(PageBlocks[p][Head(m).block])),
                             l, resp[2][Head(m).index])]
RECURSIVE StoreAll(_, _, _, _, _)
StoreAll(m, resp, p, l, acc) ==
    IF m = <<>> THEN acc
    ELSE LET item == Head(m)
             translated == resp[2][item.index]
             hash == ComputeHash(SourceHtml(PageBlocks[p][item.block]))
         IN IF translated # None
            THEN StoreAll(Tail(m), resp, p, l,
                          [ntm |-> [acc.ntm EXCEPT ![item.block] = translated],
                           cache |-> CachePut(acc.cache, hash, l, translated)])
            ELSE StoreAll(Tail(m), resp, p, l, acc)

\* queue.js:26-29 after the task function of chunk <<p, k>> has returned
\* (nothing of the task is kept but how it ended): the slot is given back
\* and next() may start a waiting chunk
ReleaseAfterSuccess(S, p, k, endState) ==
    LET r == IF endState = "ok" THEN QNext(S.q, S.ac - 1)
             ELSE [q |-> S.q, ac |-> S.ac, started |-> {}]
        ended == [S.chunks EXCEPT ![p][k] = [@ EXCEPT !.st = endState, !.left = 0, !.calls = 0]]
    IN [S EXCEPT !.chunks = WithStarted(ended, r.started), !.cm = WithCalls(@, r.started),
                 !.q = r.q, !.ac = r.ac]
Release(S, p, k, endState) ==
    LET r == QNext(S.q, S.ac - 1)
        ended == [S.chunks EXCEPT ![p][k] = [@ EXCEPT !.st = endState, !.left = 0, !.calls = 0]]
    IN [S EXCEPT !.chunks = WithStarted(ended, r.started), !.cm = WithCalls(@, r.started),
                 !.q = r.q, !.ac = r.ac]

\* index.js:254-285: when every chunk task of the awaited executeBatch has
\* returned, Promise.all resolves: the code blocks follow the standard
\* ones, then saveCache is awaited
AfterBatch(S, p) ==
    IF \E k \in DOMAIN S.chunks[p] : S.chunks[p][k].st \notin {"ok", "failed"}
    THEN S
    ELSE LET code == TasksOf(S.btm[p], "code")
         IN IF S.phase[p] = "std" /\ Len(code) > 0
            THEN Submit(S, p, code, "code")
            ELSE [S EXCEPT !.hpc[p] = "saving"]

\* part_000:19-94 and index.js:228-254: the model call of chunk <<p, k>> is
\* answered
CallReturns(p, k, resp) ==
    /\ k \in DOMAIN chunks[p]
    /\ chunks[p][k].st = "call"
    /\ LET m == Mapping(p, chunks[p][k].blocks)
           l == PassLangs[langIdx[p]]
       IN /\ resp \in Responses(m)
          /\ IF AttemptValid(m, resp)
             THEN LET w == StoreAll(m, resp, p, l,
                                    [ntm |-> newTranslationsMap[p], cache |-> fragmentCache])
                      S1 == [PState EXCEPT !.ntm[p] = w.ntm]
                  IN /\ fragmentCache' = w.cache
                     /\ Commit(AfterBatch(Release(S1, p, k, "ok"), p))
             ELSE IF ShouldRetry(chunks[p][k].left)
             THEN /\ Commit([PState EXCEPT !.chunks[p][k].left = @ - 1,
                                           !.chunks[p][k].calls = @ + 1])
                  /\ UNCHANGED fragmentCache
             ELSE /\ Commit(AfterBatch(Release(PState, p, k, "failed"), p))
                  /\ UNCHANGED fragmentCache
    /\ UNCHANGED <<deletedPages, buildComplete, flushes, buildPages, optLangs, optRetries, optConcurrency, chunkSize, cacheFile, cacheLoaded,
                   concurrency, rendersLeft, prevRecords>>
    /\ UNCHANGED <<optGiven, plugin>>
    /\ UNCHANGED notPipeline

\* index.js:290-297: the translation applied to block i, None without one
Resolution(p, i) ==
    IF blockTaskMap[p][i][1] = "cached" THEN blockTaskMap[p][i][2]
    ELSE newTranslationsMap[p][i]

\* index.js:288-308: let success
SuccessAny(p) == \E i \in BlockIds(p) : Resolution(p, i) # None
Success(p) == \A i \in BlockIds(p) : Resolution(p, i) # None

\* index.js:117-128 and 285-349: the write of saveCache has ended (done, or
\* failed with a warning); the translations are applied and the page record
\* is pushed unless a block has none; the loop goes on with the next language
SaveDone(p, wrote) ==
    /\ hpc[p] = "saving"
    /\ cacheFile' = IF wrote THEN Stringified(fragmentCache) ELSE cacheFile
    /\ LET l == PassLangs[langIdx[p]]
           html == [i \in BlockIds(p) |-> Resolution(p, i)]
           S1 == [PState EXCEPT !.gen[p] = IF Success(p) THEN @ \cup {l} ELSE @,
                                !.rec[p] = IF Success(p) THEN Append(@, Record(p, l, html)) ELSE @,
                                !.li[p] = @ + 1]
       IN Commit(BeginPass(S1, p, fragmentCache))
    /\ UNCHANGED <<deletedPages, buildComplete, flushes, buildPages, optLangs, optRetries, optConcurrency, chunkSize, fragmentCache, cacheLoaded,
                   concurrency, rendersLeft, prevRecords>>
    /\ UNCHANGED <<optGiven, plugin>>
    /\ UNCHANGED notPipeline

\* Every hook call of the build has returned.
Quiescent ==
    \A p \in buildPages : hpc[p] = "returned" /\ rendersLeft[p] = 0

\* index.js:139-351: the host deletes a page; the plugin registers no hook
\* but onAfterPageRender, so nothing of the plugin changes
PageDelete(p) ==
    /\ plugin = "created"
    /\ Quiescent
    /\ ~buildComplete
    /\ p \in buildPages \ deletedPages
    /\ deletedPages' = deletedPages \cup {p}
    /\ Commit(PState)
    /\ UNCHANGED <<buildComplete, flushes, buildPages, optLangs, optRetries, optConcurrency, chunkSize,
                   cacheFile, fragmentCache, cacheLoaded, concurrency, rendersLeft,
                   prevRecords>>
    /\ UNCHANGED <<optGiven, plugin>>
    /\ UNCHANGED notPipeline

\* index.js:139-351: the host completes the build; again no hook of the
\* plugin runs
BuildComplete ==
    /\ plugin = "created"
    /\ Quiescent
    /\ ~buildComplete
    /\ buildComplete' = TRUE
    /\ Commit(PState)
    /\ UNCHANGED <<deletedPages, flushes, buildPages, optLangs, optRetries, optConcurrency, chunkSize,
                   cacheFile, fragmentCache, cacheLoaded, concurrency, rendersLeft,
                   prevRecords>>
    /\ UNCHANGED <<optGiven, plugin>>
    /\ UNCHANGED notPipeline

\* index.js:44-136: translation(options).  validateOptions is its first
\* statement and what it throws leaves translation: no plugin is returned
\* and the host has no hook to call.  Otherwise the queue, the empty cache
\* and the hooks are created and the plugin is returned.
Setup ==
    /\ plugin = "none"
    /\ plugin' = IF ValidateOptions(optGiven) = "none"
                 THEN "created" ELSE ValidateOptions(optGiven)
    /\ UNCHANGED <<buildPages, optLangs, optGiven, optRetries, optConcurrency,
                   chunkSize, cacheFile, fragmentCache, cacheLoaded, hpc,
                   langIdx, phase, blockTaskMap, newTranslationsMap, chunks,
                   generatedPages, records, calledModel, rendersLeft,
                   prevRecords, flushes, deletedPages, buildComplete,
                   concurrency, queue, activeCount>>
    /\ UNCHANGED notPipeline

PipelineNext ==
    \/ Setup
    \/ \E p \in Pages : HookStart(p)
    \/ \E p \in Pages : LoadDone(p)
    \/ \E p \in Pages : \E k \in DOMAIN chunks[p] :
          \E resp \in Responses(Mapping(p, chunks[p][k].blocks)) : CallReturns(p, k, resp)
    \/ \E p \in Pages, wrote \in BOOLEAN : SaveDone(p, wrote)
    \/ \E p \in Pages : PageDelete(p)
    \/ BuildComplete

(***************************************************************************)
(* The cache file and its flushes: loadCache and saveCache of              *)
(* src/lib/index.js:103-128, with the writes of the batch tasks to         *)
(* fragmentCache (index.js:239-240) going on meanwhile.  A flush is a      *)
(* record: where its callback stands ("waiting" for the promise before it, *)
(* in "mkdir", in "writing", or "done"), the string it hands to writeFile, *)
(* how the promise returned by saveCache settled, and whether the warning  *)
(* of a failed save was logged.                                            *)
(***************************************************************************)
\* saveCache calls of the model
MaxFlushes == 3

hookvars == <<buildPages, optLangs, optGiven, plugin, optRetries, optConcurrency, chunkSize, hpc, langIdx, phase,
              blockTaskMap, newTranslationsMap, chunks, generatedPages, records,
              calledModel, rendersLeft, prevRecords, deletedPages, buildComplete>>
notFlush == <<bvars, svars, hookvars, purevars>>

\* the entries the batch tasks put while the flushes go on
FlushEntries == {<<"h1", "fr">>, <<"h3", "es">>}

FInit ==
    /\ cacheFile \in InitialCacheFiles
    /\ fragmentCache = EmptyCache
    /\ cacheLoaded = FALSE
    /\ flushes = <<>>

\* index.js:119: savePromise.then(callback) calls the callback once the
\* promise before it is fulfilled
PrevFlushDoneNoWait(fl, i) == TRUE
PrevFlushDone(fl, i) == i = 1 \/ fl[i - 1].result = "fulfilled"

\* index.js:119: a rejected savePromise rejects the promise chained on it
\* without calling the callback
PrevFlushFailed(fl, i) == i > 1 /\ fl[i - 1].result = "rejected"

\* index.js:123-125: the catch of the callback swallows the error, so the
\* promise of the flush is fulfilled whether or not the write was done
FlushSettlesRejecting(ok) == IF ok THEN "fulfilled" ELSE "rejected"
FlushSettles(ok) == "fulfilled"

\* the callbacks the settled promises call, front to back: mkdir is begun
\* for a waiting flush behind a fulfilled one, a flush behind a rejected one
\* is rejected
RECURSIVE Chain(_, _)
Chain(fl, i) ==
    IF i > Len(fl) THEN fl
    ELSE IF fl[i].st = "waiting" /\ PrevFlushDone(fl, i)
         THEN Chain([fl EXCEPT ![i].st = "mkdir"], i + 1)
    ELSE IF fl[i].st = "waiting" /\ PrevFlushFailed(fl, i)
         THEN Chain([fl EXCEPT ![i].st = "done", ![i].result = "rejected"], i + 1)
    ELSE Chain(fl, i + 1)

\* index.js:104-113: the cache file is read before any hook goes on
FLoad ==
    /\ ~cacheLoaded
    /\ fragmentCache' = LoadedCache(cacheFile)
    /\ cacheLoaded' = TRUE
    /\ UNCHANGED <<cacheFile, flushes>>
    /\ UNCHANGED notFlush

\* index.js:239-240: a batch task stores a translation
FPut(e) ==
    /\ cacheLoaded
    /\ ~CacheHas(fragmentCache, ComputeHash(e[1]), e[2])
    /\ fragmentCache' = CachePut(fragmentCache, ComputeHash(e[1]), e[2], Translation(e[1], "good"))
    /\ UNCHANGED <<cacheFile, cacheLoaded, flushes>>
    /\ UNCHANGED notFlush

\* index.js:117-128: saveCache() chains a flush on savePromise
FRequest ==
    /\ cacheLoaded
    /\ Len(flushes) < MaxFlushes
    /\ flushes' = Chain(Append(flushes, [st |-> "waiting", content |-> None,
                                         result |-> "pending", warned |-> FALSE]), 1)
    /\ UNCHANGED <<cacheFile, fragmentCache, cacheLoaded>>
    /\ UNCHANGED notFlush

\* index.js:121-122: mkdir has answered; on success writeFile is called
\* with JSON.stringify(fragmentCache), on failure the catch logs a warning
FMkdirDone(i, ok) ==
    /\ i \in DOMAIN flushes
    /\ flushes[i].st = "mkdir"
    /\ flushes' =
         IF ok
         THEN [flushes EXCEPT ![i].st = "writing", ![i].content = Stringified(fragmentCache)]
         ELSE Chain([flushes EXCEPT ![i].st = "done", ![i].result = FlushSettles(FALSE),
                                    ![i].warned = TRUE], 1)
    /\ UNCHANGED <<cacheFile, fragmentCache, cacheLoaded>>
    /\ UNCHANGED notFlush

\* index.js:122-125: writeFile has answered: the file holds the string, or
\* the write failed and the file is as it was or cut short
FWriteDone(i, ok, cut) ==
    /\ i \in DOMAIN flushes
    /\ flushes[i].st = "writing"
    /\ cacheFile' = IF ok THEN flushes[i].content
                    ELSE IF cut THEN <<"unreadable">> ELSE cacheFile
    /\ flushes' = Chain([flushes EXCEPT ![i].st = "done", ![i].result = FlushSettles(ok),
                                        ![i].warned = ~ok], 1)
    /\ UNCHANGED <<fragmentCache, cacheLoaded>>
    /\ UNCHANGED notFlush

FlushNext ==
    \/ FLoad
    \/ \E e \in FlushEntries : FPut(e)
    \/ FRequest
    \/ \E i \in 1..MaxFlushes, ok \in BOOLEAN : FMkdirDone(i, ok)
    \/ \E i \in 1..MaxFlushes, ok, cut \in BOOLEAN : FWriteDone(i, ok, cut)

(***************************************************************************)
(* The classifier: findTranslatableBlocks of lib/block-utils.js over the   *)
(* AST parseHTML returns.  A node is a record of its type, name, attribs   *)
(* (a function from attribute names to values), data (of a text node) and  *)
(* children; a node of the tree is named by its path, the positions of the *)
(* children to follow from the root.  SpecClassifier draws a document and  *)
(* classifies it.                                                          *)
(***************************************************************************)
\* elements nested under the top element of a document
MaxDepth == 1

\* block-utils.js:7
TRANSLATABLE_ATTRS == {"alt", "title", "placeholder", "aria-label"}
\* block-utils.js:10-31
SEMANTIC_BLOCKS ==
    {"p", "h1", "h2", "h3", "h4", "h5", "h6", "li", "blockquote", "td", "th",
     "figcaption", "caption", "dt", "dd", "summary", "option", "legend",
     "code", "pre"}
\* block-utils.js:35-48
CONTAINER_BLOCKS ==
    {"div", "span", "section", "article", "aside", "header", "footer",
     "main", "form", "nav", "figure", "details"}
\* block-utils.js:51-58
SKIP_TAGS == {"script", "style", "svg", "noscript", "iframe", "template"}
\* utils.js, DEFAULT_ALLOWED_ATTRIBUTES: the entries that name an attribute
\* of any tag
DEFAULT_ALLOWED_ATTRIBUTES ==
    {"alt", "title", "placeholder", "label", "aria-label",
     "aria-description", "aria-valuetext", "aria-roledescription",
     "aria-placeholder", "abbr", "summary"}

\* String.prototype.trim over the strings of the documents
Trim(s) ==
    CASE s \in {" ", "  "} -> ""
      [] s = " Wrapped " -> "Wrapped"
      [] OTHER -> s

NoAttribs == <<>>
Text(data) ==
    [type |-> "text", name |-> "", attribs |-> NoAttribs, data |-> data,
     children |-> <<>>]
Tag(name, attribs, children) ==
    [type |-> "tag", name |-> name, attribs |-> attribs, data |-> "",
     children |-> children]
Root(children) ==
    [type |-> "root", name |-> "", attribs |-> NoAttribs, data |-> "",
     children |-> children]

\* block-utils.js:124-132
HasTranslatableAttributesNever(node) == FALSE
HasTranslatableAttributes(node) ==
    \E attr \in TRANSLATABLE_ATTRS :
        /\ attr \in DOMAIN node.attribs
        /\ node.attribs[attr] # ""
        /\ Trim(node.attribs[attr]) # ""

\* block-utils.js:139-147
RECURSIVE HasTextContent(_)
HasTextContent(node) ==
    IF node.type = "text"
    THEN node.data # "" /\ Trim(node.data) # ""
    ELSE \E i \in DOMAIN node.children : HasTextContent(node.children[i])

\* block-utils.js:154-157
HasDirectTextContentDeep(node) == HasTextContent(node)
HasDirectTextContent(node) ==
    \E i \in DOMAIN node.children :
        /\ node.children[i].type = "text"
        /\ Trim(node.children[i].data) # ""

\* block-utils.js:87
SkippedNever(node) == FALSE
Skipped(node) == node.name \in SKIP_TAGS

\* block-utils.js:89-103: isBlock
IsBlock(node) ==
    /\ node.type = "tag"
    /\ IF HasTranslatableAttributes(node) THEN TRUE
       ELSE IF node.name \in SEMANTIC_BLOCKS THEN HasTextContent(node)
       ELSE IF node.name \in CONTAINER_BLOCKS THEN HasDirectTextContent(node)
       ELSE FALSE

\* block-utils.js:83-117: the nodes findTranslatableBlocks(node, blocks)
\* pushes to blocks, in push order; `at` is the path of node.
RECURSIVE FindTranslatableBlocks(_, _)
RECURSIVE TraverseChildren(_, _, _)
RECURSIVE TraverseChildrenBackwards(_, _, _)
TraverseChildrenBackwards(node, at, i) ==
    IF i > Len(node.children) THEN <<>>
    ELSE TraverseChildrenBackwards(node, at, i + 1)
            \o FindTranslatableBlocks(node.children[i], at \o <<i>>)
TraverseChildren(node, at, i) ==
    IF i > Len(node.children) THEN <<>>
    ELSE FindTranslatableBlocks(node.children[i], at \o <<i>>)
            \o TraverseChildren(node, at, i + 1)
FindTranslatableBlocks(node, at) ==
    IF Skipped(node) THEN <<>>
    ELSE IF IsBlock(node) THEN <<at>>
    ELSE TraverseChildren(node, at, 1)

\* The documents: text nodes, tag names of each set and of none, attribs
\* that are translatable, blank, allow-listed by utils.js only, or not
\* translatable.
TextNodes == {Text("Text"), Text(" ")}
TagNames == {"p", "div", "span", "script", "a"}
TopAttribs ==
    {NoAttribs, [title |-> "Home"], [title |-> " "], [label |-> "Name"],
     [href |-> "/x"]}
InnerAttribs == {NoAttribs, [title |-> "Home"]}

RECURSIVE Elements(_, _)
Elements(attribs, d) ==
    {Tag(n, a, ch) : n \in TagNames, a \in attribs,
                     ch \in {<<>>} \cup {<<t>> : t \in TextNodes}}
    \cup
    (IF d = 0 THEN {}
     ELSE {Tag(n, a, ch) :
             n \in TagNames, a \in attribs,
             ch \in {<<c>> : c \in Elements(InnerAttribs, d - 1)}
                \cup {<<Text("Text"), c>> : c \in Elements(InnerAttribs, d - 1)}})

\* the documents of the tests of findTranslatableBlocks
TestDocuments ==
    { Root(<<Tag("p", NoAttribs, <<Text("Hello")>>),
             Tag("div", NoAttribs, <<Tag("p", NoAttribs, <<Text("World")>>)>>)>>),
      Root(<<Tag("p", NoAttribs, <<>>),
             Tag("h1", NoAttribs, <<Tag("span", NoAttribs, <<>>)>>)>>),
      Root(<<Tag("div", NoAttribs, <<Text("Direct text")>>),
             Tag("section", NoAttribs,
                 <<Text("  "), Tag("span", NoAttribs, <<Text(" Wrapped ")>>)>>)>>),
      Root(<<Tag("script", NoAttribs, <<Text("console.log()")>>),
             Tag("style", NoAttribs, <<Text(".css {}")>>)>>),
      Root(<<Tag("div", NoAttribs,
                 <<Text("Text"), Tag("span", NoAttribs, <<Text("more")>>)>>)>>),
      Root(<<Tag("a", ("href" :> "#") @@ ("aria-label" :> "Back to top"),
                 <<Text(" "), Tag("svg", NoAttribs, <<Tag("path", NoAttribs, <<>>)>>)>>)>>) }

\* documents of several elements side by side, at the top and one level
\* down: units, elements without a unit, elements with units inside, and a
\* unit with a unit-like element inside
SiblingElements ==
    { Tag("p", NoAttribs, <<Text("Text")>>),
      Tag("p", NoAttribs, <<>>),
      Tag("div", NoAttribs, <<Text("Text")>>),
      Tag("div", NoAttribs, <<Tag("p", NoAttribs, <<Text("Text")>>)>>),
      Tag("div", NoAttribs, <<Tag("p", NoAttribs, <<Text("Text")>>),
                              Tag("p", NoAttribs, <<Text("Text")>>)>>),
      Tag("span", NoAttribs, <<Text("Text")>>),
      Tag("script", NoAttribs, <<Text("Text")>>),
      Tag("a", [title |-> "Home"], <<Tag("p", NoAttribs, <<Text("Text")>>)>>) }
SiblingDocuments ==
    {Root(<<a, b>>) : a, b \in SiblingElements}
    \cup {Root(<<Tag("div", NoAttribs, <<a, b>>), c>>) : a, b, c \in SiblingElements}

Documents ==
    {Root(<<e>>) : e \in Elements(TopAttribs, MaxDepth)} \cup TestDocuments
        \cup SiblingDocuments

CIdle ==
    /\ root = Root(<<>>)
    /\ blocks = <<>>
    /\ classified = FALSE

CInit ==
    /\ root \in Documents
    /\ blocks = <<>>
    /\ classified = FALSE

\* const blocks = []; findTranslatableBlocks(parsed.root, blocks)
Classify ==
    /\ ~classified
    /\ blocks' = FindTranslatableBlocks(root, <<>>)
    /\ classified' = TRUE
    /\ UNCHANGED root
    /\ UNCHANGED notClassifier

ClassifierNext == Classify

(***************************************************************************)
(* The payload codec: prepareTranslationPayload and parseTranslatedPayload *)
(* of lib/block-utils.js.  A string is a sequence of tokens: a character,  *)
(* or a whole chunk delimiter (<chunk id="N"> or </chunk>), which is what  *)
(* the regular expression of parseTranslatedPayload tells apart.           *)
(* SpecCodec draws the fragments of some units, encodes them, lets the     *)
(* model answer the payload with text of its own around the chunks, and    *)
(* decodes the answer.                                                     *)
(***************************************************************************)
\* units handed to prepareTranslationPayload
MaxUnits == 2
OpenTags == <<"<chunk id=\"0\">", "<chunk id=\"1\">", "<chunk id=\"2\">",
              "<chunk id=\"3\">">>
\* `<chunk id="${index}">`
OpenTag(index) == OpenTags[index + 1]
CloseTag == "</chunk>"
IsOpenTag(t) == \E i \in DOMAIN OpenTags : OpenTags[i] = t
\* parseInt(match[1], 10)
ParseInt(t) == (CHOOSE i \in DOMAIN OpenTags : OpenTags[i] = t) - 1
WhiteSpace == {" ", "\n"}

\* String.prototype.trim over tokens
RECURSIVE TrimStart(_)
TrimStart(s) ==
    IF s # <<>> /\ Head(s) \in WhiteSpace THEN TrimStart(Tail(s)) ELSE s
RECURSIVE TrimEnd(_)
TrimEnd(s) ==
    IF s # <<>> /\ s[Len(s)] \in WhiteSpace
    THEN TrimEnd(SubSeq(s, 1, Len(s) - 1)) ELSE s
TrimTokensStartOnly(s) == TrimStart(s)
TrimTokens(s) == TrimEnd(TrimStart(s))

\* block-utils.js:214
ChunkOf(index, html) ==
    <<OpenTag(index), "\n">> \o html \o <<"\n", CloseTag, "\n">>

\* block-utils.js:204-226: <<payload, mapping>> for the fragments of the
\* blocks from position i on (serializeNode of the blocks is `htmls`)
RECURSIVE PrepareTranslationPayload(_, _)
PrepareTranslationPayload(htmls, i) ==
    IF i > Len(htmls) THEN <<<<>>, <<>>>>
    ELSE LET rest == PrepareTranslationPayload(htmls, i + 1)
         IN IF TrimTokens(htmls[i]) = <<>> THEN rest
            ELSE << ChunkOf(i - 1, htmls[i]) \o rest[1],
                    <<[index |-> i - 1, originalHtml |-> htmls[i]]>> \o rest[2] >>

\* translations.set(id, content)
MapSet(map, id, content) ==
    [k \in DOMAIN map \cup {id} |-> IF k = id THEN content ELSE map[k]]

\* block-utils.js:233-247: the matches of
\* /<chunk id="(\d+)">([\s\S]*?)<\/chunk>/g in response from position k on
RECURSIVE ParseTranslatedPayload(_, _, _)
ParseTranslatedPayload(resp, k, translated) ==
    LET opens == {i \in k..Len(resp) : IsOpenTag(resp[i])}
    IN IF opens = {} THEN translated
       ELSE LET o == CHOOSE i \in opens : \A j \in opens : i <= j
                closes == {j \in (o + 1)..Len(resp) : resp[j] = CloseTag}
            IN IF closes = {} THEN translated
               ELSE LET c == CHOOSE i \in closes : \A j \in closes : i <= j
                    IN ParseTranslatedPayload(resp, c + 1,
                           MapSet(translated, ParseInt(resp[o]),
                                  TrimTokens(SubSeq(resp, o + 1, c - 1))))

\* fragments: empty, blank, text, text within white space, text with
\* white space inside, and text that holds a chunk delimiter
Fragments ==
    {<<>>, <<" ">>, <<"a">>, <<" ", "a", "\n">>, <<"a", " ", "b">>,
     <<"a", CloseTag>>}

\* what the model writes of its own before a chunk or after the last one
StrayTexts ==
    {<<>>, <<"S", "o", " ">>, <<OpenTag(0), "n", CloseTag>>, <<OpenTag(1), " ">>}

\* the payload as the model gives it back: stray[j] before chunk j, and the
\* last stray text after the last chunk
RECURSIVE Answer(_, _, _)
Answer(map, stray, j) ==
    IF j > Len(map) THEN stray[j]
    ELSE stray[j] \o ChunkOf(map[j].index, map[j].originalHtml)
            \o Answer(map, stray, j + 1)

KIdle ==
    /\ fragments = <<>>
    /\ payload = <<>>
    /\ mapping = <<>>
    /\ response = <<>>
    /\ translations = <<>>
    /\ kpc = "idle"

KInit ==
    /\ \E n \in 1..MaxUnits : fragments \in [1..n -> Fragments]
    /\ payload = <<>>
    /\ mapping = <<>>
    /\ response = <<>>
    /\ translations = <<>>
    /\ kpc = "start"

\* const { payload, mapping } = prepareTranslationPayload(blocks)
Prepare ==
    /\ kpc = "start"
    /\ LET r == PrepareTranslationPayload(fragments, 1)
       IN payload' = r[1] /\ mapping' = r[2]
    /\ kpc' = "prepared"
    /\ UNCHANGED <<fragments, response, translations>>
    /\ UNCHANGED notCodec

\* the model answers the payload
Respond ==
    /\ kpc = "prepared"
    /\ \E stray \in [1..(Len(mapping) + 1) -> StrayTexts] :
          response' = Answer(mapping, stray, 1)
    /\ kpc' = "answered"
    /\ UNCHANGED <<fragments, payload, mapping, translations>>
    /\ UNCHANGED notCodec

\* const translations = parseTranslatedPayload(response)
Parse ==
    /\ kpc = "answered"
    /\ translations' = ParseTranslatedPayload(response, 1, <<>>)
    /\ kpc' = "parsed"
    /\ UNCHANGED <<fragments, payload, mapping, response>>
    /\ UNCHANGED notCodec

CodecNext == Prepare \/ Respond \/ Parse

(***************************************************************************)
(* The fragment validator: validateChunk of lib/validation.js, which       *)
(* processBlockBatch calls with the default thresholds.  A fragment is the *)
(* AST parseHTML gives for it; the data of a text node is its sequence of  *)
(* UTF-16 code units.  The quotient targetLen / sourceLen is compared as   *)
(* a fraction: for lengths this small the double nearest to the quotient   *)
(* is on the same side of the threshold as the quotient itself.            *)
(* SpecValidator draws a source and a translated fragment and validates.   *)
(***************************************************************************)
\* longest text of a translated fragment
MaxTargetLen == 50
\* most elements at the top of a fragment
MaxChildren == 2

\* the /[\s]/ code units trim removes: tab, line feed, space
SpaceUnits == {9, 10, 32}
\* /[぀-ヿ㐀-䶿一-鿿豈-﫿ｦ-ﾟ]/
IsCJK(u) ==
    \/ 12352 <= u /\ u <= 12543
    \/ 13312 <= u /\ u <= 19903
    \/ 19968 <= u /\ u <= 40959
    \/ 63744 <= u /\ u <= 64255
    \/ 65382 <= u /\ u <= 65439

\* String.prototype.trim over code units
RECURSIVE TrimUnits(_)
TrimUnits(s) ==
    IF s = <<>> THEN s
    ELSE IF Head(s) \in SpaceUnits THEN TrimUnits(Tail(s))
    ELSE IF s[Len(s)] \in SpaceUnits THEN TrimUnits(SubSeq(s, 1, Len(s) - 1))
    ELSE s

\* validation.js, extractText
RECURSIVE ExtractText(_)
RECURSIVE ExtractTextOfChildren(_, _)
ExtractTextOfChildren(node, i) ==
    IF i > Len(node.children) THEN <<>>
    ELSE ExtractText(node.children[i]) \o ExtractTextOfChildren(node, i + 1)
ExtractText(node) ==
    IF node.type = "text" THEN node.data
    ELSE ExtractTextOfChildren(node, 1)

\* validation.js, countTags: the names of the tags of the tree, one for
\* each tag, in document order
RECURSIVE TagsOf(_)
RECURSIVE TagsOfChildren(_, _)
TagsOfChildren(node, i) ==
    IF i > Len(node.children) THEN <<>>
    ELSE TagsOf(node.children[i]) \o TagsOfChildren(node, i + 1)
TagsOf(node) ==
    (IF node.type \in {"tag", "script", "style"} THEN <<node.name>> ELSE <<>>)
        \o TagsOfChildren(node, 1)

\* counts.get(x) || 0 of a list of keys
Count(list, x) == Cardinality({i \in DOMAIN list : list[i] = x})

\* validation.js, extractAttributes: the (tag, attr, value) of every href,
\* src, class and id, in document order
CriticalAttrs == <<"href", "src", "class", "id">>
AttrsOfNode(node) ==
    LET own == SelectSeq(CriticalAttrs, LAMBDA k : k \in DOMAIN node.attribs)
    IN [i \in DOMAIN own |-> <<node.name, own[i], node.attribs[own[i]]>>]
RECURSIVE ExtractAttributes(_)
RECURSIVE ExtractAttributesOfChildren(_, _)
ExtractAttributesOfChildren(node, i) ==
    IF i > Len(node.children) THEN <<>>
    ELSE ExtractAttributes(node.children[i])
            \o ExtractAttributesOfChildren(node, i + 1)
ExtractAttributes(node) ==
    (IF node.type = "tag" THEN AttrsOfNode(node) ELSE <<>>)
        \o ExtractAttributesOfChildren(node, 1)

\* validation.js: { minRatio = 0.4, maxRatio = 2.5 }, and 0.1 and 8.0 with
\* CJK, as fractions <<numerator, denominator>>
DefaultMinRatioLoose == <<3, 10>>
DefaultMinRatio == <<4, 10>>
DefaultMaxRatio == <<25, 10>>
CJKMinRatio == <<1, 10>>
CJKMaxRatio == <<8, 1>>
\* sourceLen > 5
ShortTextLen == 5

Result(isValid, reason) == [isValid |-> isValid, reason |-> reason]
\* typeof translatedHtml !== 'string'
NotAString ==
    [type |-> "undefined", name |-> "", attribs |-> NoAttribs, data |-> "",
     children |-> <<>>]

\* a string for which parseHTML throws
Unparsable ==
    [type |-> "error", name |-> "", attribs |-> NoAttribs, data |-> "",
     children |-> <<>>]

\* for (const [tag, count] of sourceTags.entries()): every source count is
\* met
SourceCountsMet(src, tr) ==
    \A i \in DOMAIN src : Count(src, src[i]) = Count(tr, src[i])
\* and no key of the translation is new
SameCountsLoose(src, tr) == SourceCountsMet(src, tr)
SameCounts(src, tr) ==
    /\ SourceCountsMet(src, tr)
    /\ \A i \in DOMAIN tr : Count(src, tr[i]) > 0

\* validation.js, validateChunk(sourceHtml, translatedHtml) with the
\* default options; the reason without its figures
ValidateChunkResult(sourceAst, translatedAst) ==
    IF translatedAst = NotAString
    THEN Result(FALSE, "Translation is not a string")
    ELSE IF sourceAst = Unparsable \/ translatedAst = Unparsable
    THEN Result(FALSE, "Failed to parse HTML")
    ELSE
    LET sourceText == TrimUnits(ExtractText(sourceAst))
        translatedText == TrimUnits(ExtractText(translatedAst))
        sourceLen == Len(sourceText)
        targetLen == Len(translatedText)
        both == sourceText \o translatedText
        hasCJK == \E i \in DOMAIN both : IsCJK(both[i])
        currentMin == IF hasCJK THEN CJKMinRatio ELSE DefaultMinRatio
        currentMax == IF hasCJK THEN CJKMaxRatio ELSE DefaultMaxRatio
        sourceTags == TagsOf(sourceAst)
        translatedTags == TagsOf(translatedAst)
        sourceAttrs == ExtractAttributes(sourceAst)
        translatedAttrs == ExtractAttributes(translatedAst)
    IN IF sourceLen > 0 /\ targetLen = 0
       THEN Result(FALSE, "Translation text is empty")
       ELSE IF sourceLen > ShortTextLen
               /\ targetLen * currentMin[2] < currentMin[1] * sourceLen
       THEN Result(FALSE, "Text too short")
       ELSE IF sourceLen > ShortTextLen
               /\ targetLen * currentMax[2] > currentMax[1] * sourceLen
       THEN Result(FALSE, "Text too long")
       ELSE IF ~SourceCountsMet(sourceTags, translatedTags)
       THEN Result(FALSE, "Tag mismatch")
       ELSE IF ~SameCounts(sourceTags, translatedTags)
       THEN Result(FALSE, "Hallucinated tag")
       ELSE IF ~SourceCountsMet(sourceAttrs, translatedAttrs)
       THEN Result(FALSE, "Attribute mismatch")
       ELSE IF ~SameCounts(sourceAttrs, translatedAttrs)
       THEN Result(FALSE, "Hallucinated attribute")
       ELSE Result(TRUE, "null")

\* lib/service.js:17: { minRatio = 0.3, maxRatio = 5.0, minLengthThreshold = 5 }
LegacyMinRatioTight == <<5, 10>>
LegacyMinRatio == <<3, 10>>
LegacyMaxRatio == <<5, 1>>
MinLengthThreshold == 5

\* lib/service.js:17-93, validateTranslationSafety(original, translated)
\* of two strings with the default options; the reason without its figures
ValidateTranslationSafety(original, translated) ==
    LET source == TrimUnits(original)
        target == TrimUnits(translated)
        sourceLen == Len(source)
        targetLen == Len(target)
        both == source \o target
        hasCJK == \E i \in DOMAIN both : IsCJK(both[i])
        currentMin == IF hasCJK THEN CJKMinRatio ELSE LegacyMinRatio
        currentMax == IF hasCJK THEN CJKMaxRatio ELSE LegacyMaxRatio
    IN IF target = <<>> \/ source = <<>>
       THEN Result(FALSE, "Translation is empty")
       ELSE IF (\A i \in DOMAIN source : source[i] # 32) \/ sourceLen <= MinLengthThreshold
       THEN Result(TRUE, "Skipped: Below length threshold")
       ELSE IF targetLen * currentMin[2] < currentMin[1] * sourceLen
       THEN Result(FALSE, "Too short")
       ELSE IF targetLen * currentMax[2] > currentMax[1] * sourceLen
       THEN Result(FALSE, "Too long")
       ELSE Result(TRUE, "null")

\* a text of n code units: letters, with a space inside and a kana at the
\* start when asked for
TextOf(n, space, cjk) ==
    [i \in 1..n |-> IF cjk /\ i = 1 THEN 12459
                    ELSE IF space /\ i = 3 THEN 32 ELSE 97]
SourceLens == {0, 4, 5, 6, 10, 20}
TextFragment(n, space, cjk) == Root(<<Text(TextOf(n, space, cjk))>>)

\* the elements of the fragments compared for structure
Word == Text(<<97>>)
FragmentElements ==
    { Tag("p", NoAttribs, <<Word>>),
      Tag("p", [title |-> "T"], <<Word>>),
      Tag("a", [href |-> "/x"], <<Word>>),
      Tag("a", [href |-> "/y"], <<Word>>),
      Tag("a", ("href" :> "/x") @@ ("class" :> "c"), <<Word>>),
      Tag("span", NoAttribs, <<Word>>) }
TaggedFragments ==
    UNION {{Root(ch) : ch \in [1..n -> FragmentElements]} : n \in 1..MaxChildren}
\* <div><p>a</p></div>, <div><p>a</p><p>b</p></div>, <div><span>a</span></div>
NestedFragments ==
    { Root(<<Tag("div", NoAttribs, <<Tag("p", NoAttribs, <<Word>>)>>)>>),
      Root(<<Tag("div", NoAttribs, <<Tag("p", NoAttribs, <<Word>>),
                                     Tag("p", NoAttribs, <<Text(<<98>>)>>)>>)>>),
      Root(<<Tag("div", NoAttribs, <<Tag("span", NoAttribs, <<Word>>)>>)>>) }

VIdle ==
    /\ vSource = Root(<<>>)
    /\ vTranslated = Root(<<>>)
    /\ validation = Result(FALSE, "none")
    /\ safety = Result(FALSE, "none")

VInit ==
    /\ \/ /\ \E n \in SourceLens, space, cjk \in BOOLEAN :
               vSource = TextFragment(n, space, cjk)
          /\ \E n \in 0..MaxTargetLen, cjk \in BOOLEAN :
               vTranslated = TextFragment(n, FALSE, cjk)
       \/ /\ vSource \in TaggedFragments \cup NestedFragments
          /\ vTranslated \in TaggedFragments \cup NestedFragments \cup {NotAString, Unparsable}
    /\ validation = Result(FALSE, "none")
    /\ safety = Result(FALSE, "none")

\* service.js: const validation = validateChunk(item.originalHtml, translatedHtml)
Validate ==
    /\ validation.reason = "none"
    /\ validation' = ValidateChunkResult(vSource, vTranslated)
    /\ UNCHANGED <<vSource, vTranslated, safety>>
    /\ UNCHANGED notValidator

\* a fragment that is one text node, the plain text a text node task holds
IsPlainText(ast) == Len(ast.children) = 1 /\ ast.children[1].type = "text"

\* lib/service.js:157, validateTranslationSafety(tasks[i].text,
\* translations[i]) of the text-node flow, for the plain text of the pair
ValidateText ==
    /\ safety.reason = "none"
    /\ IsPlainText(vSource) /\ IsPlainText(vTranslated)
    /\ safety' = ValidateTranslationSafety(vSource.children[1].data,
                                           vTranslated.children[1].data)
    /\ UNCHANGED <<vSource, vTranslated, validation>>
    /\ UNCHANGED notValidator

ValidatorNext == Validate \/ ValidateText

(***************************************************************************)
(* Attribute restoration: restoreAttributes of lib/block-utils.js, over    *)
(* the ASTs of the source and the translated fragment; its result is the   *)
(* AST that the returned string serializes.  SpecRestore draws the two     *)
(* fragments and restores.                                                 *)
(***************************************************************************)
\* block-utils.js:305-316, getFlatTags: the tag nodes in document order
RECURSIVE GetFlatTags(_)
RECURSIVE GetFlatTagsOfChildren(_, _)
GetFlatTagsOfChildren(node, i) ==
    IF i > Len(node.children) THEN <<>>
    ELSE GetFlatTags(node.children[i]) \o GetFlatTagsOfChildren(node, i + 1)
GetFlatTags(node) ==
    (IF node.type \in {"tag", "script", "style"} THEN <<node>> ELSE <<>>)
        \o GetFlatTagsOfChildren(node, 1)

\* block-utils.js:356-366: { ...sourceAttrs }, then the translatable
\* attributes the translated tag has of its own
NewAttrsKeepAll(sourceAttrs, targetAttrs) ==
    [k \in DOMAIN sourceAttrs \cup DOMAIN targetAttrs |->
        IF k \in DOMAIN targetAttrs THEN targetAttrs[k] ELSE sourceAttrs[k]]
NewAttrs(sourceAttrs, targetAttrs) ==
    [k \in DOMAIN sourceAttrs \cup (DOMAIN targetAttrs \cap TRANSLATABLE_ATTRS) |->
        IF k \in DOMAIN targetAttrs \cap TRANSLATABLE_ATTRS
        THEN targetAttrs[k] ELSE sourceAttrs[k]]

\* block-utils.js:346-367: the translated tree with tTag.attribs = newAttrs
\* on its tags; `before` tags of the tree come before node in document
\* order
RECURSIVE WithNewAttrs(_, _, _)
RECURSIVE ChildrenWithNewAttrs(_, _, _, _)
ChildrenWithNewAttrs(node, sourceTags, before, i) ==
    IF i > Len(node.children) THEN <<>>
    ELSE <<WithNewAttrs(node.children[i], sourceTags, before)>>
            \o ChildrenWithNewAttrs(node, sourceTags,
                   before + Len(GetFlatTags(node.children[i])), i + 1)
WithNewAttrs(node, sourceTags, before) ==
    IF node.type \in {"tag", "script", "style"}
    THEN [node EXCEPT
            !.attribs = NewAttrs(sourceTags[before + 1].attribs, node.attribs),
            !.children = ChildrenWithNewAttrs(node, sourceTags, before + 1, 1)]
    ELSE [node EXCEPT
            !.children = ChildrenWithNewAttrs(node, sourceTags, before, 1)]

\* block-utils.js:326-371, restoreAttributes(sourceHtml, translatedHtml)
RestoreAttributes(sourceAst, translatedAst) ==
    LET sourceTags == GetFlatTags(sourceAst)
        translatedTags == GetFlatTags(translatedAst)
    IN IF Len(sourceTags) # Len(translatedTags) THEN translatedAst
       ELSE IF \E i \in DOMAIN sourceTags :
                  sourceTags[i].name # translatedTags[i].name
       THEN translatedAst
       ELSE WithNewAttrs(translatedAst, sourceTags, 0)

\* attribs of the fragments: an href that may change, an aria-label that
\* may be translated, emptied or dropped, an attribute of no list
Absent == "(absent)"
AttribsWith(href, label, extra) ==
    [k \in (IF href = Absent THEN {} ELSE {"href"})
           \cup (IF label = Absent THEN {} ELSE {"aria-label"})
           \cup (IF extra = Absent THEN {} ELSE {"data-x"}) |->
        IF k = "href" THEN href ELSE IF k = "aria-label" THEN label ELSE extra]
RestoreAttribs ==
    {AttribsWith(h, l, x) : h \in {Absent, "/x", "/y"},
                            l \in {Absent, "Label", "Libelle", ""},
                            x \in {Absent, "1"}}
RestoreElements ==
    {Tag(n, a, <<Word>>) : n \in {"a", "p"}, a \in RestoreAttribs}
\* the fragments of the tests of a nested structure and of a structure
\* mismatch (restore-attributes.spec.js:71-90)
RestoreTestFragments ==
    { Root(<<Tag("div", [class |-> "orig"], <<Tag("p", [id |-> "p1"], <<Word>>)>>)>>),
      Root(<<Tag("div", [class |-> "trans"], <<Tag("p", [id |-> "p2"], <<Word>>)>>)>>),
      Root(<<Tag("div", NoAttribs, <<Tag("p", NoAttribs, <<Word>>)>>)>>),
      Root(<<Tag("div", NoAttribs, <<Word>>)>>),
      Root(<<Tag("span", NoAttribs, <<Word>>)>>) }
RestoreFragments ==
    RestoreTestFragments
    \cup {Root(<<e>>) : e \in RestoreElements}
    \cup {Root(<<e, Tag("img", a, <<>>)>>) :
            e \in RestoreElements,
            a \in {NoAttribs, [alt |-> "Logo"], ("alt" :> "Logo") @@ ("src" :> "l.png")}}

RIdle ==
    /\ sourceRoot = Root(<<>>)
    /\ translatedRoot = Root(<<>>)
    /\ restored = Root(<<>>)
    /\ rpc = "idle"

RInit ==
    /\ sourceRoot \in RestoreFragments
    /\ translatedRoot \in RestoreFragments
    /\ restored = Root(<<>>)
    /\ rpc = "start"

\* restoreAttributes(sourceHtml, translatedHtml)
Restore ==
    /\ rpc = "start"
    /\ restored' = RestoreAttributes(sourceRoot, translatedRoot)
    /\ rpc' = "restored"
    /\ UNCHANGED <<sourceRoot, translatedRoot>>
    /\ UNCHANGED notRestore

RestoreNext == Restore

(***************************************************************************)
(* Link localization: processRelativeLinks and prefixPath,                 *)
(* src/lib/link-utils.js.  An href is the sequence of its parts: a scheme  *)
(* with its colon, "//", "/", "\", ".", "..", a name, a query string, a    *)
(* fragment.  The string is the concatenation of the parts.                *)
(***************************************************************************)
HashParts == {"#top", "#result"}
SearchParts == {"?q=test"}
\* the schemes /^[a-z]+:/ matches (link-utils.js:37) and one it does not
LowerSchemeParts == {"mailto:", "tel:", "https:", "http:"}
SchemeParts == LowerSchemeParts \cup {"HTTP:"}

\* href.startsWith(...)
StartsWith(href, parts) == href # <<>> /\ href[1] \in parts

\* the URL parser lowercases the scheme it reads
SchemeOf(part) == IF part = "HTTP:" THEN "http:" ELSE part

\* url.hash, url.search and what is before them
HashOf(href) ==
    IF href # <<>> /\ href[Len(href)] \in HashParts
    THEN <<href[Len(href)]>> ELSE <<>>
SearchOf(href) ==
    LET b == SubSeq(href, 1, Len(href) - Len(HashOf(href)))
    IN IF b # <<>> /\ b[Len(b)] \in SearchParts THEN <<b[Len(b)]>> ELSE <<>>
BodyOf(href) ==
    SubSeq(href, 1, Len(href) - Len(HashOf(href)) - Len(SearchOf(href)))

\* relativePagePath.replace(/\\/g, '/'), link-utils.js:45
ReplaceBackslashes(path) ==
    [i \in DOMAIN path |-> IF path[i] = "\\" THEN "/" ELSE path[i]]

\* the segments of a path, the empty string between and after slashes
RECURSIVE Split(_)
Split(parts) ==
    IF parts = <<>> THEN <<"">>
    ELSE IF Head(parts) = "/" THEN <<"">> \o Split(Tail(parts))
    ELSE IF Len(parts) = 1 THEN <<Head(parts)>>
    ELSE <<Head(parts)>> \o Split(SubSeq(parts, 3, Len(parts)))

\* the URL parser shortens a path by its last segment; the path of the
\* site root stays empty
ShortenKeep(path) == path
Shorten(path) ==
    IF path = <<>> THEN <<>> ELSE SubSeq(path, 1, Len(path) - 1)

\* the URL parser's path state: ".." shortens the path, "." is dropped,
\* either leaves an empty segment when it is the last one
RECURSIVE ResolveDots(_, _)
ResolveDots(path, segments) ==
    IF segments = <<>> THEN path
    ELSE LET s == Head(segments)
             slash == IF Len(segments) = 1 THEN <<"">> ELSE <<>>
             next == IF s = ".." THEN Shorten(path) \o slash
                     ELSE IF s = "." THEN path \o slash
                     ELSE path \o <<s>>
         IN ResolveDots(next, Tail(segments))

\* url.pathname: the segments, each after a slash
RECURSIVE Pathname(_)
Pathname(path) ==
    IF path = <<>> THEN <<>>
    ELSE <<"/">> \o (IF Head(path) = "" THEN <<>> ELSE <<Head(path)>>)
         \o Pathname(Tail(path))

\* the path of a relative reference: from the root after a leading slash,
\* from the directory of the base otherwise; the base's own path when the
\* reference has no path
ReferencePath(body, basePath) ==
    IF body = <<>> THEN basePath
    ELSE IF Head(body) = "/" THEN ResolveDots(<<>>, Tail(Split(body)))
    ELSE ResolveDots(Shorten(basePath), Split(body))

\* new URL(normalizedPagePath, 'http://dummy.com/'), link-utils.js:51
DummyOrigin == <<"http:", "//", "dummy.com">>
BaseOf(relativePagePath_) ==
    ReferencePath(ReplaceBackslashes(relativePagePath_), <<>>)

\* new URL(href, base), link-utils.js:55: origin and path.  A scheme with
\* "//" names its own host; http: without "//" is the scheme of the base
\* and the rest is read as a relative reference; any other scheme has an
\* opaque origin; "//" takes the scheme of the base.
ParseURL(href, basePath) ==
    LET body == BodyOf(href) IN
    IF StartsWith(body, SchemeParts)
    THEN LET scheme == SchemeOf(Head(body))
             rest == Tail(body)
         IN IF scheme \in {"http:", "https:"} /\ StartsWith(rest, {"//"})
            THEN [origin |-> <<scheme, "//">> \o SubSeq(rest, 2, 2),
                  path |-> ReferencePath(<<"/">> \o SubSeq(rest, 4, Len(rest)), <<>>)]
            ELSE IF scheme = "http:"
            THEN [origin |-> DummyOrigin, path |-> ReferencePath(rest, basePath)]
            ELSE [origin |-> <<"null">>, path |-> rest]
    ELSE IF StartsWith(body, {"//"})
    THEN [origin |-> <<"http:", "//">> \o SubSeq(body, 2, 2),
          path |-> ReferencePath(<<"/">> \o SubSeq(body, 4, Len(body)), <<>>)]
    ELSE [origin |-> DummyOrigin, path |-> ReferencePath(body, basePath)]

\* extname of node:path, over the names the hrefs are made of
Ext(name) ==
    CASE name \in {"index.html", "blog.html", "contact.html", "e.html",
                   "sibling.html", "post.html", "page.html", "c.html",
                   "a.html"} -> ".html"
      [] name = "image.png" -> ".png"
      [] name = "script.js" -> ".js"
      [] name = "style.css" -> ".css"
      [] OTHER -> ""
ExtName(path) == IF path = <<>> THEN "" ELSE Ext(path[Len(path)])

\* link-utils.js:33-80; null is the empty sequence: like it, the empty
\* string is not assigned at link-utils.js:14
Null == <<>>
PrefixPath(href, targetLang_, relativePagePath_) ==
    IF StartsWith(href, HashParts) THEN Null
    ELSE IF StartsWith(href, {"mailto:"}) THEN Null
    ELSE IF StartsWith(href, {"tel:"}) THEN Null
    ELSE IF StartsWith(href, LowerSchemeParts) THEN Null
    ELSE IF StartsWith(href, {"//"}) THEN Null
    ELSE LET url == ParseURL(href, BaseOf(relativePagePath_))
             ext == ExtName(url.path)
         IN IF url.origin # DummyOrigin THEN Null
            ELSE IF ext # "" /\ ext # ".html" THEN Null
            ELSE <<"/", targetLang_>> \o Pathname(url.path)
                 \o SearchOf(href) \o HashOf(href)

\* link-utils.js:9-24
RECURSIVE ProcessRelativeLinks(_, _, _)
ProcessRelativeLinks(node, targetLang_, relativePagePath_) ==
    LET newHref == PrefixPath(node.attribs.href, targetLang_, relativePagePath_)
        anchor == /\ node.name = "a"
                  /\ "href" \in DOMAIN node.attribs
                  /\ node.attribs.href # <<>>
        own == IF anchor /\ newHref # Null
               THEN [node EXCEPT !.attribs = [@ EXCEPT !["href"] = newHref]]
               ELSE node
    IN [own EXCEPT !.children =
            [i \in DOMAIN @ |->
                ProcessRelativeLinks(@[i], targetLang_, relativePagePath_)]]

\* the hrefs of the pages: those of the tests of link-utils and others
Hrefs ==
    {<<"#top">>, <<"mailto:", "a@b.com">>, <<"tel:", "123">>,
     <<"https:", "//", "google.com">>, <<"//", "cdn.example.com">>,
     <<"/", "image.png">>, <<"script.js">>, <<"..", "/", "style.css">>,
     <<"/", "index.html">>, <<"blog.html">>, <<"..", "/", "contact.html">>,
     <<"/", "blog">>, <<"..", "/", "about">>,
     <<"/", "search", "?q=test", "#result">>,
     <<"..", "/", "..", "/", "d", "/", "e.html">>,
     <<".", "/", "sibling.html">>, <<"?q=test">>, <<"blog", "/">>, <<"..">>,
     <<"d", "/", "..", "/", "e.html", "#top">>,
     <<"http:", "//", "dummy.com", "/", "a.html">>,
     <<"HTTP:", "//", "dummy.com", "/", "a.html">>,
     <<"HTTP:", "blog.html">>}
LinkPagePaths ==
    {<<"index.html">>, <<"blog", "/", "post.html">>,
     <<"dir", "\\", "page.html">>, <<"a", "/", "b", "/", "c.html">>}
LinkLanguages == {"fr", "es"}
LinkAttribs(href) == ("href" :> href) @@ ("class" :> <<"nav">>)
LinkTrees(href) ==
    {Root(<<Tag("a", LinkAttribs(href), <<Text("x")>>)>>),
     Root(<<Tag("div", ("class" :> <<"nav">>),
                <<Tag("a", ("href" :> href), <<Text("x")>>),
                  Tag("link", ("href" :> href), <<>>),
                  Tag("a", ("href" :> <<"/", "index.html">>), <<>>)>>),
            Text("y")>>),
     Root(<<Tag("a", ("class" :> <<"nav">>),
                <<Tag("span", NoAttribs,
                      <<Tag("a", LinkAttribs(href), <<Text("x")>>)>>)>>)>>)}

LIdle ==
    /\ linkTree = Root(<<>>)
    /\ targetLang = "fr"
    /\ relativePagePath = <<"index.html">>
    /\ linked = Root(<<>>)
    /\ lpc = "idle"

LInit ==
    /\ \E href \in Hrefs : linkTree \in LinkTrees(href)
    /\ targetLang \in LinkLanguages
    /\ relativePagePath \in LinkPagePaths
    /\ linked = Root(<<>>)
    /\ lpc = "start"

\* processRelativeLinks(node, targetLang, relativePagePath)
Localize ==
    /\ lpc = "start"
    /\ linked' = ProcessRelativeLinks(linkTree, targetLang, relativePagePath)
    /\ lpc' = "done"
    /\ UNCHANGED <<linkTree, targetLang, relativePagePath>>
    /\ UNCHANGED notLinks

LinksNext == Localize

(***************************************************************************)
(* Merging a translation into its unit: reconstructBlock,                  *)
(* src/lib/block-utils.js:256-297, as the page hook calls it               *)
(* (src/lib/index.js:287-308) and as its other callers may.                *)
(***************************************************************************)
\* block-utils.js:288-296: the attributes of the block after the loop over
\* TRANSLATABLE_ATTRS
UpdatedAttribs(attribs, newAttribs) ==
    LET taken == TRANSLATABLE_ATTRS \cap DOMAIN newAttribs
        names == DOMAIN attribs \cup taken
    IN IF names = {} THEN NoAttribs
       ELSE [k \in names |-> IF k \in taken THEN newAttribs[k] ELSE attribs[k]]

\* block-utils.js:256-297, with parsedRoot = parseFn(translatedHtml).root;
\* only the empty string, for which the function returns at once, parses to
\* a root without children
ReconstructBlock(node, parsedRoot, useOuter) ==
    LET rootChildren == parsedRoot.children
        tagNodes == SelectSeq(rootChildren, LAMBDA c : c.type = "tag")
        outer == useOuter /\ Len(tagNodes) = 1
    IN IF rootChildren = <<>> THEN node
       ELSE IF outer
       THEN [node EXCEPT !.children = tagNodes[1].children,
                         !.attribs = UpdatedAttribs(@, tagNodes[1].attribs)]
       ELSE [node EXCEPT !.children = rootChildren]

\* index.js:300, reconstructBlock(block, translatedHtml, parseHTML): the
\* fourth parameter takes its default (block-utils.js:256)
UseOuterDefault == FALSE
ApplyTranslation(node, parsedRoot) ==
    ReconstructBlock(node, parsedRoot, UseOuterDefault)

\* the units of the pages and what the model answers for them
French(s) ==
    CASE s = "Old" -> "New"
      [] s = "Logo" -> "Logo FR"
      [] s = "Read more" -> "Lire la suite"
      [] s = "now" -> "maintenant"
      [] OTHER -> s
UnitAttribs ==
    {NoAttribs,
     [class |-> "btn"],
     ("href" :> "#") @@ ("aria-label" :> "Old"),
     ("href" :> "#") @@ ("aria-label" :> "Old") @@ ("class" :> "btn"),
     ("title" :> "Old") @@ ("data-x" :> "1"),
     ("title" :> " ") @@ ("class" :> "btn")}
UnitChildren ==
    {<<>>, <<Text("Read more")>>,
     <<Text("Read more"), Tag("b", NoAttribs, <<Text("now")>>)>>}
UnitNodes ==
    {Tag(n, a, c) : n \in {"a", "p"}, a \in UnitAttribs, c \in UnitChildren}
    \ {Tag(n, a, <<>>) : n \in {"a", "p"}, a \in {NoAttribs, [class |-> "btn"],
                             ("title" :> " ") @@ ("class" :> "btn")}}

\* the translation of a node: its texts and allow-listed attributes in
\* French, everything else as it is
RECURSIVE TranslatedNode(_)
TranslatedNode(node) ==
    IF node.type = "text" THEN Text(French(node.data))
    ELSE [node EXCEPT
            !.attribs = IF @ = NoAttribs THEN NoAttribs
                        ELSE [k \in DOMAIN @ |->
                                IF k \in TRANSLATABLE_ATTRS THEN French(@[k])
                                ELSE @[k]],
            !.children = [i \in DOMAIN @ |-> TranslatedNode(@[i])]]

\* the same without the attributes that validateChunk does not compare
\* and that are not translated: a model may leave them out
WithoutData(node) ==
    [node EXCEPT !.attribs =
        IF "data-x" \in DOMAIN @
        THEN [k \in DOMAIN @ \ {"data-x"} |-> @[k]] ELSE @]

\* block-utils.js:209-210: the fragment sent for a unit is the unit itself
\* when it has translatable attributes, its children otherwise; what comes
\* back has the same shape (part_000:70-80), in a direct call possibly
\* with white space around
Padded(children) == <<Text(" ")>> \o children \o <<Text(" ")>>
TranslationsOf(node) ==
    IF HasTranslatableAttributes(node)
    THEN {Root(<<t>>) : t \in {TranslatedNode(node), WithoutData(TranslatedNode(node))}}
         \cup {Root(Padded(<<TranslatedNode(node)>>))}
    ELSE {Root(TranslatedNode(node).children)}
IsPadded(parsedRoot) ==
    /\ parsedRoot.children # <<>>
    /\ parsedRoot.children[1] = Text(" ")

MIdle ==
    /\ blockNode = Root(<<>>)
    /\ mParsed = Root(<<>>)
    /\ merged = Root(<<>>)
    /\ mpc = "idle"

MInit ==
    /\ blockNode \in UnitNodes
    /\ mParsed \in TranslationsOf(blockNode)
    /\ merged = Root(<<>>)
    /\ mpc = "start"

\* index.js:289-308: the hook merges the translation of the unit; the
\* string comes from parseTranslatedPayload, which trims it
\* (block-utils.js:242)
Apply ==
    /\ mpc = "start"
    /\ ~IsPadded(mParsed)
    /\ merged' = ApplyTranslation(blockNode, mParsed)
    /\ mpc' = "applied"
    /\ UNCHANGED <<blockNode, mParsed>>
    /\ UNCHANGED notMerge

\* reconstructBlock(block, translatedHtml, parseHTML, useOuter) called by
\* another user of the module, as the tests do
Reconstruct(useOuter) ==
    /\ mpc = "start"
    /\ merged' = ReconstructBlock(blockNode, mParsed, useOuter)
    /\ mpc' = IF useOuter THEN "outer" ELSE "inner"
    /\ UNCHANGED <<blockNode, mParsed>>
    /\ UNCHANGED notMerge

MergeNext ==
    \/ Apply
    \/ \E useOuter \in BOOLEAN : Reconstruct(useOuter)

(***************************************************************************)
(* The text-node flow: repairLanguageFields, processRepairBatch and        *)
(* convertMessage of lib/service.js, and the loop of the page hook that    *)
(* consumes the generator (src/unnamed/part_002:126-194).  The hook asks   *)
(* for the next record only when it has dealt with the one before, so the  *)
(* generator and its consumer take turns.  A translation is labelled with  *)
(* the call that returned it and its place among the translations of that  *)
(* call, which is all the code knows of it.                                *)
(***************************************************************************)
\* most text nodes of a page
MaxNodes == 3
\* the texts of the nodes, values of options.chunkSize and options.retries
Texts == {"a", "b"}
TextChunkSizes == {1, 2, 3}
TextRetries == {0, 1}

\* part_002:135-151: a task for every node whose text is not in the cache,
\* with the index of its node
TextTasks(in) ==
    LET uncached == SelectSeq([i \in DOMAIN in.nodes |-> i],
                              LAMBDA i : in.nodes[i] \notin in.cached)
    IN [k \in DOMAIN uncached |->
            [text |-> in.nodes[uncached[k]], originalIndex |-> uncached[k]]]

\* service.js:248: tasks.slice(i, i + chunkSize)
ChunkAt(tasks, i, size) == SubSeq(tasks, i + 1, Min(i + size, Len(tasks)))

\* service.js:280-292, convertMessage: the segments between '---' that are
\* not blank; a segment is "" (blank), "good" or "bad" (a text that
\* validateTranslationSafety accepts, or rejects, for any source)
ConvertMessage(content) == SelectSeq(content, LAMBDA text : text # "")

\* the translations of a call, labelled
Labelled(list, call) == [k \in DOMAIN list |-> <<"translated", call, k, list[k]>>]

\* service.js:256: new Array(chunk.length).fill(null)
NullResultsNone(chunk) == <<>>
NullResults(chunk) == [k \in DOMAIN chunk |-> None]

\* what fetch can give for a chunk: a failure, or a content of up to one
\* segment more than was sent
Contents(n) == UNION {[1..m -> {"", "good", "bad"}] : m \in 0..(n + 1)}
TextResponses(n) == {<<"error">>} \cup {<<"content", c>> : c \in Contents(n)}

\* part_002:171-181: the results of a record are stored, each for the task
\* at currentTaskOffset + r; a task that does not exist ends the loop with
\* a TypeError
RECURSIVE StoreResults(_, _, _, _)
StoreResults(c, tasks, results, r) ==
    IF r > Len(results) \/ c.offset + r > Len(tasks) THEN c
    ELSE LET task == tasks[c.offset + r]
         IN IF results[r] # None
            THEN StoreResults([c EXCEPT !.ntm[task.originalIndex] = results[r],
                                        !.cache = CachePut(@, task.text, "", results[r])],
                              tasks, results, r + 1)
            ELSE StoreResults(c, tasks, results, r + 1)

XIdle ==
    /\ textInput = [nodes |-> <<>>, cached |-> {}, chunkSize |-> 1, retries |-> 0]
    /\ generator = [pc |-> "done", i |-> 0, left |-> 0, yielded |-> <<>>]
    /\ consumer = [offset |-> 0, ntm |-> <<>>, cache |-> EmptyCache]

XInit ==
    /\ textInput \in
          [nodes : UNION {[1..n -> Texts] : n \in 1..MaxNodes},
           cached : SUBSET Texts, chunkSize : TextChunkSizes, retries : TextRetries]
    /\ generator = [pc |-> "start", i |-> 0, left |-> 0, yielded |-> <<>>]
    /\ consumer =
          [offset |-> 0, ntm |-> [i \in DOMAIN textInput.nodes |-> None],
           cache |-> [key \in {<<t, "">> : t \in textInput.cached} |->
                        <<"translated", 0, 0, "good">>]]

\* part_002:153-166 and service.js:242-250: with a task to do the hook makes
\* the generator and asks for its first record, and the first chunk is sent
TextStart ==
    /\ generator.pc = "start"
    /\ generator' =
          IF Len(TextTasks(textInput)) > 0
          THEN [generator EXCEPT !.pc = "call", !.left = textInput.retries]
          ELSE [generator EXCEPT !.pc = "done"]
    /\ UNCHANGED <<textInput, consumer>>
    /\ UNCHANGED notTextFlow

\* service.js:117-180 and 251-268: the call of processRepairBatch for the
\* chunk at i is answered; translations that are as many as the chunk and
\* all valid are its results, anything else is retried, and after the last
\* retry the results are nulls; the record is yielded
TextAnswer(resp) ==
    /\ generator.pc = "call"
    /\ LET tasks == TextTasks(textInput)
           chunk == ChunkAt(tasks, generator.i, textInput.chunkSize)
           chunkIndex == (generator.i \div textInput.chunkSize) + 1
           converted == IF resp[1] = "content" THEN ConvertMessage(resp[2]) ELSE <<>>
           valid == /\ resp[1] = "content"
                    /\ Len(converted) = Len(chunk)
                    /\ \A k \in DOMAIN converted : converted[k] = "good"
       IN /\ resp \in TextResponses(Len(chunk))
          /\ generator' =
                IF valid
                THEN [generator EXCEPT
                        !.pc = "yield",
                        !.yielded = Append(@, [chunkIndex |-> chunkIndex,
                                               results |-> Labelled(converted, chunkIndex)])]
                ELSE IF generator.left > 0
                THEN [generator EXCEPT !.left = @ - 1]
                ELSE [generator EXCEPT
                        !.pc = "yield",
                        !.yielded = Append(@, [chunkIndex |-> chunkIndex,
                                               results |-> NullResults(chunk)])]
    /\ UNCHANGED <<textInput, consumer>>
    /\ UNCHANGED notTextFlow

\* part_002:168-186 and service.js:246, 259-268: the hook stores the results
\* of the record, moves its offset on and asks for the next record; the
\* generator sends the next chunk or ends
TextConsume ==
    /\ generator.pc = "yield"
    /\ LET tasks == TextTasks(textInput)
           results == generator.yielded[Len(generator.yielded)].results
           stored == StoreResults(consumer, tasks, results, 1)
           i == generator.i + textInput.chunkSize
       IN /\ consumer' = [stored EXCEPT !.offset = @ + Len(results)]
          /\ generator' =
                IF i < Len(tasks)
                THEN [generator EXCEPT !.pc = "call", !.i = i, !.left = textInput.retries]
                ELSE [generator EXCEPT !.pc = "done", !.i = i]
    /\ UNCHANGED textInput
    /\ UNCHANGED notTextFlow

TextFlowNext ==
    \/ TextStart
    \/ \E resp \in TextResponses(MaxNodes) : TextAnswer(resp)
    \/ TextConsume

(***************************************************************************)
(* Specifications.                                                         *)
(***************************************************************************)
\* the functions checked on their own are not called
PureIdle == CIdle /\ KIdle /\ VIdle /\ RIdle /\ LIdle /\ MIdle /\ XIdle

InitBounded == BInit /\ SIdle /\ PIdle /\ PureIdle
SpecBounded == InitBounded /\ [][BoundedNext]_vars

InitSequential == BIdle /\ SInit /\ PIdle /\ PureIdle
SpecSequential == InitSequential /\ [][SequentialNext]_vars

InitPipeline == PInit /\ SIdle /\ TIdle /\ PureIdle
SpecPipeline == InitPipeline /\ [][PipelineNext]_vars

InitFlush == BIdle /\ SIdle /\ HooksIdle /\ FInit /\ PureIdle
SpecFlush == InitFlush /\ [][FlushNext]_vars

QueuesIdle == BIdle /\ SIdle /\ PIdle

InitClassifier == QueuesIdle /\ CInit /\ KIdle /\ VIdle /\ RIdle /\ LIdle /\ MIdle /\ XIdle
SpecClassifier == InitClassifier /\ [][ClassifierNext]_vars

InitCodec == QueuesIdle /\ CIdle /\ KInit /\ VIdle /\ RIdle /\ LIdle /\ MIdle /\ XIdle
SpecCodec == InitCodec /\ [][CodecNext]_vars

InitValidator == QueuesIdle /\ CIdle /\ KIdle /\ VInit /\ RIdle /\ LIdle /\ MIdle /\ XIdle
SpecValidator == InitValidator /\ [][ValidatorNext]_vars

InitRestore == QueuesIdle /\ CIdle /\ KIdle /\ VIdle /\ RInit /\ LIdle /\ MIdle /\ XIdle
SpecRestore == InitRestore /\ [][RestoreNext]_vars

InitLinks == QueuesIdle /\ CIdle /\ KIdle /\ VIdle /\ RIdle /\ LInit /\ MIdle /\ XIdle
SpecLinks == InitLinks /\ [][LinksNext]_vars

InitMerge == QueuesIdle /\ CIdle /\ KIdle /\ VIdle /\ RIdle /\ LIdle /\ MInit /\ XIdle
SpecMerge == InitMerge /\ [][MergeNext]_vars

InitTextFlow == QueuesIdle /\ CIdle /\ KIdle /\ VIdle /\ RIdle /\ LIdle /\ MIdle /\ XInit
SpecTextFlow == InitTextFlow /\ [][TextFlowNext]_vars

\* The consumers keep asking (for await) and every started task ends.
SpecSequentialFair == SpecSequential /\ WF_vars(SequentialNext)

\* Every started task settles and the promise reactions run (queue.js:23-29);
\* whether add is called again is up to the caller.
SpecBoundedFair ==
    /\ SpecBounded
    /\ WF_vars(\E t \in Tasks, ok \in BOOLEAN : BSettle(t, ok))
    /\ WF_vars(\E t \in Tasks : BDeliver(t))
    /\ WF_vars(\E t \in Tasks, throws \in BOOLEAN : BFinally(t, throws))

(***************************************************************************)
(* Properties of the bounded queue (SpecBounded).                          *)
(***************************************************************************)

\* C1: at any time at most `concurrency` tasks have been started and have
\* not yet settled.
C1_AtMostNRunning == Cardinality(Running) <= concurrency

\* the limit is reached while a task waits
C1_Witness == Cardinality(Running) = concurrency /\ Len(queue) > 0

\* C2: tasks are started in the order of their add calls (tasks are numbered
\* in add order), and with concurrency 1 task k+1 is started only after
\* task k has settled.
C2_StartInAddOrder ==
    /\ \A i \in 1..Len(startOrder) : startOrder[i] = i
    /\ concurrency = 1 =>
         \A t \in Tasks :
            (t + 1 \in Tasks /\ bstate[t + 1] \notin {"new", "queued"})
               => bstate[t] \notin {"new", "queued", "running"}

\* three tasks were started one after the other, the later ones after waiting
C2_Witness == concurrency = 1 /\ Len(startOrder) >= 3 /\ Len(queue) > 0

\* A task has failed and the queue has finished handling it.
BFailed(t) ==
    \/ bstate[t] = "thrown"
    \/ bstate[t] = "done" /\ bresult[t][1] = "error"

\* C3: when a task fails, by a rejected promise or by throwing, the promise
\* of its add call rejects with the error of the task, its slot is released
\* (activeCount counts only tasks that still hold a slot) and a task never
\* waits while a slot is free.
C3_FailureReleasesSlot ==
    (\E t \in Tasks : BFailed(t)) =>
        /\ \A t \in Tasks : BFailed(t) => bpromise[t] = <<"rejected", t>>
        /\ activeCount = Cardinality(HoldingSlot)
        /\ Len(queue) > 0 => Cardinality(HoldingSlot) >= concurrency

(***************************************************************************)
(* Properties of the sequential queue (SpecSequential).                    *)
(***************************************************************************)

\* C4: a task's function is called only after every task that chained onto
\* the queue before it has run to completion, so at most one task is
\* executing (its function called, not yet completed) at any time.
C4_OneAtATime ==
    /\ \A t \in Executing : \A i \in 1..(ChainPos(t) - 1) : entered[i] \in Completed
    /\ Cardinality(Executing) <= 1

\* a generator-shaped task is at its second value while a later task waits
C4_Witness ==
    \E t, u \in SeqTasks :
        /\ skind[t] = "generator" /\ spc[t] = "yielded" /\ produced[t] >= 2
        /\ spc[u] = "waiting" /\ ChainPos(u) > ChainPos(t)

\* The task chained right before t has failed.
FailedBefore(t) ==
    /\ ChainPos(t) > 1
    /\ spc[entered[ChainPos(t) - 1]] = "failed"

\* C5: a failed task has released its lock and its consumer has received
\* the error of the task, and the task waiting behind a failed task is
\* started.
C5_FailureReleasesLock ==
    /\ \A t \in SeqTasks :
          [](spc[t] = "failed" => lock[t] = "released" /\ sresult[t] = <<"error", t>>)
    /\ \A t \in SeqTasks :
          (spc[t] = "waiting" /\ FailedBefore(t)) ~> (spc[t] # "waiting")

\* the task behind a failed task has been started
C5_Witness ==
    \E t \in SeqTasks : FailedBefore(t) /\ spc[t] \in {"executing", "yielded", "done"}

(***************************************************************************)
(* Properties of the translation pipeline (SpecPipeline).                  *)
(***************************************************************************)

\* The blocks of chunk task <<p, k>>.
BlocksOf(p, k) == {chunks[p][k].blocks[i] : i \in DOMAIN chunks[p][k].blocks}

\* C6: the number of model calls in flight, over all chunks, languages and
\* pages, retries included, is at most the configured concurrency (4 when
\* none is configured).
C6_CallsWithinConcurrency ==
    Cardinality(InFlight) <=
        (IF optConcurrency > 0 THEN optConcurrency ELSE DefaultConcurrency)

\* as many calls as the configured concurrency are in flight, for chunks of
\* two pages, and a chunk waits
C6_Witness ==
    /\ optConcurrency > 0
    /\ Cardinality(InFlight) = optConcurrency
    /\ Len(queue) > 0
    /\ \E a, b \in InFlight : a[1] # b[1]

\* C7: for every configured retry budget R >= 0 a chunk causes at most R + 1
\* model calls.
C7_AtMostRPlusOneCalls ==
    \A pk \in ChunkIds : chunks[pk[1]][pk[2]].calls <= optRetries + 1

\* C8: every translation in the result map has passed validation against
\* the source fragment of its unit, every translation in the cache has
\* passed validation against the source fragment of a unit stored under its
\* key, and a chunk that succeeded has a translation for every one of its
\* units.
C8_OnlyValidatedAccepted ==
    /\ \A p \in Pages : \A i \in DOMAIN newTranslationsMap[p] :
          newTranslationsMap[p][i] # None =>
             ValidateChunk(OriginalHtml(PageBlocks[p][i]), newTranslationsMap[p][i])
    /\ \A key \in DOMAIN fragmentCache : \E p \in Pages : \E i \in BlockIds(p) :
          /\ ComputeHash(SourceHtml(PageBlocks[p][i])) = key[1]
          /\ ValidateChunk(OriginalHtml(PageBlocks[p][i]), fragmentCache[key])
    /\ \A pk \in ChunkIds : chunks[pk[1]][pk[2]].st = "ok" =>
          \A b \in BlocksOf(pk[1], pk[2]) : newTranslationsMap[pk[1]][b] # None

\* a chunk of two units has been accepted
C8_Witness ==
    \E pk \in ChunkIds :
        /\ chunks[pk[1]][pk[2]].st = "ok"
        /\ Cardinality(BlocksOf(pk[1], pk[2])) = 2
        /\ \A b \in BlocksOf(pk[1], pk[2]) : newTranslationsMap[pk[1]][b] # None

\* Chunk task <<p, k>> returns in this step.
ChunkEnds(p, k) ==
    /\ k \in DOMAIN chunks[p]
    /\ chunks[p][k].st = "call"
    /\ chunks'[p][k].st \in {"ok", "failed"}

\* C9: when a chunk succeeds every unit of it is written to the cache and
\* to the result map; a chunk that exhausted its retries writes nothing;
\* the end of a chunk leaves the results of the other units of the page,
\* and its sibling chunks, as they are (a waiting sibling may be started).
C9_ChunksIndependent ==
    [][\A p \in Pages : \A k \in DOMAIN chunks[p] : ChunkEnds(p, k) =>
          /\ chunks'[p][k].st = "ok" =>
                \A b \in BlocksOf(p, k) :
                   /\ newTranslationsMap'[p][b] # None
                   /\ CacheHas(fragmentCache', ComputeHash(SourceHtml(PageBlocks[p][b])),
                               PassLangs[langIdx[p]])
          /\ chunks'[p][k].st = "failed" =>
                /\ fragmentCache' = fragmentCache
                /\ newTranslationsMap' = newTranslationsMap
          /\ \A b \in BlockIds(p) \ BlocksOf(p, k) :
                newTranslationsMap'[p][b] = newTranslationsMap[p][b]
          /\ \A j \in DOMAIN chunks[p] \ {k} :
                \/ chunks'[p][j] = chunks[p][j]
                \/ chunks[p][j].st = "queued" /\ chunks'[p][j].st = "call"
      ]_vars

\* of two chunks of a pass one has failed and the other has succeeded
C9_Witness ==
    \E p \in Pages : \E j, k \in DOMAIN chunks[p] :
        /\ phase[p] = "std"
        /\ chunks[p][j].st = "failed"
        /\ chunks[p][k].st = "ok"
        /\ \A b \in BlocksOf(p, j) : newTranslationsMap[p][b] = None
        /\ \A b \in BlocksOf(p, k) : newTranslationsMap[p][b] # None

\* Every unit of page p has a cache hit or a batch result in the pass.
AllResolved(p) ==
    \A i \in BlockIds(p) :
        blockTaskMap[p][i][1] = "cached" \/ newTranslationsMap[p][i] # None

\* C10: when a pass of a page ends, the record of its language is generated
\* if and only if every unit of the page has a resolution; the records of
\* the other languages and of the other pages are left as they are.
C10_RecordIffAllResolved ==
    [][\A p \in Pages : (hpc[p] = "saving" /\ langIdx'[p] # langIdx[p]) =>
          /\ (PassLangs[langIdx[p]] \in generatedPages'[p]) <=> AllResolved(p)
          /\ generatedPages'[p] \ {PassLangs[langIdx[p]]} = generatedPages[p]
          /\ \A q \in Pages \ {p} : generatedPages'[q] = generatedPages[q]
      ]_vars

\* a page has lost its first language and has the record of its second,
\* and the other page has both records
C10_Witness ==
    \E p, q \in Pages :
        /\ hpc[p] = "returned" /\ generatedPages[p] = {PassLangs[2]}
        /\ hpc[q] = "returned" /\ generatedPages[q] = {PassLangs[1], PassLangs[2]}

\* The hook call of page p before the current one returned a record for
\* every language it made a pass for.
PreviousCallComplete(p) == Len(prevRecords[p]) = Len(PassLangs)

\* C11: a hook call for a page whose previous call resolved every unit, the
\* cache untouched in between, makes no model call and returns the records
\* of the previous call, with the same HTML.
C11_SecondPassFromCache ==
    \A p \in Pages :
        (hpc[p] = "returned" /\ PreviousCallComplete(p)) =>
            /\ ~calledModel[p]
            /\ records[p] = prevRecords[p]

\* C12: a unit is looked up and stored under the hash of the fragment that
\* is sent to the model and validated against, so a cache hit is always a
\* translation of the unit's own source fragment.
C12_KeyIsHashOfSentFragment ==
    \A p \in Pages : \A i \in DOMAIN blockTaskMap[p] :
        blockTaskMap[p][i][1] = "cached" =>
           blockTaskMap[p][i][2][1] = OriginalHtml(PageBlocks[p][i])

(***************************************************************************)
(* Properties of the cache file and its flushes (SpecFlush).               *)
(***************************************************************************)

\* The flushes whose callback is at work: mkdir or writeFile is pending.
FlushesAtWork == {i \in DOMAIN flushes : flushes[i].st \in {"mkdir", "writing"}}

\* C13: a flush starts its work only after every flush requested before it
\* has finished, so at most one write of the cache file is in progress.
C13_FlushesSerialized ==
    /\ \A i \in FlushesAtWork : \A j \in 1..(i - 1) : flushes[j].st = "done"
    /\ Cardinality(FlushesAtWork) <= 1

\* a flush is writing while two flushes requested after it wait
C13_Witness ==
    /\ Len(flushes) >= 3
    /\ flushes[1].st = "writing"
    /\ flushes[2].st = "waiting"
    /\ flushes[3].st = "waiting"

\* C14: a flush that ends, its write done or failed, leaves fragmentCache
\* as it is and fulfils the promise of saveCache; no flush is rejected and
\* none waits unless a flush before it is at work; a flush that comes to
\* its write hands the whole of fragmentCache to writeFile, the entries of
\* every earlier flush included; a cache file that cannot be read gives an
\* empty cache.
C14_FailedFlushKeepsCache ==
    /\ [][\A i \in DOMAIN flushes :
            (flushes[i].st \in {"mkdir", "writing"} /\ flushes'[i].st = "done") =>
                /\ fragmentCache' = fragmentCache
                /\ flushes'[i].result = "fulfilled"]_vars
    /\ [][\A i \in DOMAIN flushes :
            (flushes[i].st = "mkdir" /\ flushes'[i].st = "writing") =>
                /\ flushes'[i].content = Stringified(fragmentCache)
                /\ \A j \in 1..(i - 1) : flushes[j].content # None =>
                      \A key \in DOMAIN flushes[j].content[2] :
                         key \in DOMAIN flushes'[i].content[2]]_vars
    /\ [][(~cacheLoaded /\ cacheLoaded' /\ cacheFile[1] = "unreadable") =>
            fragmentCache' = EmptyCache]_vars
    /\ [](\A i \in DOMAIN flushes :
            /\ flushes[i].result # "rejected"
            /\ flushes[i].st = "waiting" => \E j \in 1..(i - 1) : j \in FlushesAtWork)

\* the write of a flush has failed and the flush after it has written the
\* cache, an entry put meanwhile included, to the file
C14_Witness ==
    \E i \in DOMAIN flushes :
        /\ flushes[i].warned /\ flushes[i].content # None
        /\ i + 1 \in DOMAIN flushes
        /\ flushes[i + 1].st = "done" /\ ~flushes[i + 1].warned
        /\ cacheFile = flushes[i + 1].content
        /\ cacheFile # flushes[i].content
        /\ fragmentCache # EmptyCache

(***************************************************************************)
(* Further properties of the translation pipeline (SpecPipeline).          *)
(***************************************************************************)

\* C15: within a run the in-memory cache only grows: an entry that has been
\* put can be looked up ever after, whatever the hooks, the batch tasks, the
\* lazy load and the flushes do.
C15_CacheOnlyGrows ==
    [][\A key \in DOMAIN fragmentCache : CacheHas(fragmentCache', key[1], key[2])]_vars

\* The fingerprints page p looks up and stores.
UsedBy(p) == {ComputeHash(SourceHtml(PageBlocks[p][i])) : i \in BlockIds(p)}

\* C16: once the build has completed, the cache file holds no entry whose
\* fingerprint is used by deleted pages only.
C16_UnusedEntriesRemoved ==
    (buildComplete /\ cacheFile[1] = "json") =>
        \A key \in DOMAIN cacheFile[2] :
            (\E p \in deletedPages : key[1] \in UsedBy(p)) =>
                \E q \in buildPages \ deletedPages : key[1] \in UsedBy(q)

\* The configured target languages other than the source language; language
\* codes are compared without regard to case.
OtherTargets ==
    {ToLowerCase(optLangs.targets[i]) : i \in DOMAIN optLangs.targets}
        \ {ToLowerCase(optLangs.source)}

\* The records the hook call of page p holds for language l.
RecordsFor(p, l) == {i \in DOMAIN records[p] : records[p][i].lang = l}

\* C17: for a page that is neither excluded nor under a target-language
\* prefix, the hook returns at most one record per configured target
\* language and none for the source language, exactly one for every other
\* target language whose units were all resolved or whose page has no
\* units, and every record's pathname is the page's path relative to the
\* pages root nested under <pages root>/<targetLang>/.
C17_OneRecordPerOtherTarget ==
    /\ [](\A p \in Pages :
            (hpc[p] = "returned" /\ ~UnderTargetPrefix(p) /\ ~Excluded(p)) =>
                /\ \A i \in DOMAIN records[p] :
                     /\ Cardinality(RecordsFor(p, records[p][i].lang)) = 1
                     /\ records[p][i].lang \in OtherTargets
                     /\ records[p][i].pathname =
                          PagesRoot \o <<records[p][i].lang>> \o
                          SubSeq(PagePaths[p], Len(PagesRoot) + 1,
                                 Len(PagePaths[p]))
                /\ BlockIds(p) = {} =>
                     \A l \in OtherTargets :
                         Cardinality(RecordsFor(p, l)) = 1)
    /\ [][\A p \in Pages :
            (/\ hpc[p] = "saving" /\ langIdx'[p] # langIdx[p]
             /\ PassLangs[langIdx[p]] \in OtherTargets
             /\ AllResolved(p)) =>
                Cardinality({i \in DOMAIN records'[p] :
                    records'[p][i].lang = PassLangs[langIdx[p]]}) = 1
      ]_vars

(***************************************************************************)
(* The classifier's claims.  A unit is a node whose path is in blocks.     *)
(***************************************************************************)
RECURSIVE NodeAt(_, _)
NodeAt(node, path) ==
    IF path = <<>> THEN node ELSE NodeAt(node.children[Head(path)], Tail(path))

RECURSIVE PathsUnder(_, _)
PathsUnder(node, at) ==
    {at} \cup UNION {PathsUnder(node.children[i], at \o <<i>>) :
                        i \in DOMAIN node.children}

\* the paths of the nodes of the document, and of its tag nodes
Paths == PathsUnder(root, <<>>)
TagPaths == {path \in Paths : NodeAt(root, path).type = "tag"}
Units == {blocks[i] : i \in DOMAIN blocks}

\* q is path, or leads through path
Within(path, q) == Len(q) >= Len(path) /\ SubSeq(q, 1, Len(path)) = path
Below(path, q) == Within(path, q) /\ q # path
ChildOf(path, q) == Within(path, q) /\ Len(q) = Len(path) + 1

\* the node is a text node with a character that is not white space
IsText(path) ==
    /\ NodeAt(root, path).type = "text"
    /\ NodeAt(root, path).data \notin {"", " ", "  "}

\* the node carries an attribute of the set with a value that is not blank
Carries(path, attrs) ==
    \E a \in DOMAIN NodeAt(root, path).attribs :
        a \in attrs /\ NodeAt(root, path).attribs[a] \notin {"", " ", "  "}

\* The traversal comes to the node: no node above it is a unit or has a
\* tag of the skip set.
Reached(path) ==
    \A q \in Paths : Below(q, path) =>
        q \notin Units /\ NodeAt(root, q).name \notin SKIP_TAGS

TextAndSpan ==
    Root(<<Tag("div", NoAttribs,
               <<Text("Text"), Tag("span", NoAttribs, <<Text("more")>>)>>)>>)
EmptyParagraph == Root(<<Tag("p", NoAttribs, <<>>)>>)

\* C18: among the nodes the traversal comes to that carry no translatable
\* attribute, a node of the semantic set is a unit exactly when it or a
\* descendant has non-whitespace text, and a node of the container set is a
\* unit exactly when a child of it is non-whitespace text (otherwise the
\* traversal goes on to its children); <div>Text<span>more</span></div>
\* yields the div alone and an empty <p> yields nothing.
C18_TagPolicy ==
    classified =>
        /\ \A path \in TagPaths :
             (Reached(path) /\ ~Carries(path, DEFAULT_ALLOWED_ATTRIBUTES)) =>
                /\ NodeAt(root, path).name \in SEMANTIC_BLOCKS =>
                     (path \in Units <=> \E q \in Paths : Within(path, q) /\ IsText(q))
                /\ NodeAt(root, path).name \in CONTAINER_BLOCKS =>
                     (path \in Units <=> \E q \in Paths : ChildOf(path, q) /\ IsText(q))
        /\ root = TextAndSpan => blocks = << <<1>> >>
        /\ root = EmptyParagraph => blocks = <<>>

\* a div without direct text was descended into and the paragraph with text
\* under it is the unit
C18_Witness ==
    /\ classified
    /\ \E path \in TagPaths, q \in Units :
         /\ NodeAt(root, path).name \in CONTAINER_BLOCKS
         /\ NodeAt(root, path).attribs = NoAttribs
         /\ path \notin Units
         /\ ChildOf(path, q)
         /\ NodeAt(root, q).name \in SEMANTIC_BLOCKS
         /\ NodeAt(root, q).attribs = NoAttribs

\* C19: a node with a tag of the skip set is never a unit, and no node of
\* its subtree is, whatever text or attributes they carry.
C19_SkipSetExcluded ==
    \A path \in Paths :
        NodeAt(root, path).name \in {"script", "style", "svg", "noscript", "iframe", "template"} =>
            \A q \in Units : ~Within(path, q)

\* a script with a title, and under it a paragraph with a title and text,
\* were classified
C19_Witness ==
    /\ classified
    /\ \E path \in TagPaths, q \in TagPaths :
         /\ NodeAt(root, path).name = "script"
         /\ Carries(path, {"title"})
         /\ ChildOf(path, q)
         /\ NodeAt(root, q).name = "p"
         /\ Carries(q, {"title"})
         /\ \E t \in Paths : ChildOf(q, t) /\ IsText(t)

\* C20 as stated: a tag node the traversal comes to, outside the skip set,
\* that carries a non-empty attribute of the list alt, title, placeholder,
\* label, aria-label, aria-description, aria-valuetext,
\* aria-roledescription, aria-placeholder, abbr, summary is a unit, whatever
\* its tag and whether or not it has text, and no node of its subtree is a
\* unit.
C20_AttributeOverride ==
    classified =>
        \A path \in TagPaths :
            (/\ Reached(path)
             /\ NodeAt(root, path).name \notin SKIP_TAGS
             /\ Carries(path, DEFAULT_ALLOWED_ATTRIBUTES)) =>
                /\ path \in Units
                /\ \A q \in Units : ~Below(path, q)

\* C20: a tag node the traversal comes to, outside the skip set, that
\* carries a non-blank alt, title, placeholder or aria-label attribute is a
\* unit, whatever tag set it belongs to and whether or not it has text, and
\* no node of its subtree is a unit.
C20_AttributeOverrideOfFour ==
    classified =>
        \A path \in TagPaths :
            (/\ Reached(path)
             /\ NodeAt(root, path).name \notin SKIP_TAGS
             /\ Carries(path, {"alt", "title", "placeholder", "aria-label"})) =>
                /\ path \in Units
                /\ \A q \in Units : ~Below(path, q)

\* an anchor without text is a unit for its title, and the paragraph under
\* it, with a title and text of its own, is not
C20_Witness ==
    /\ classified
    /\ \E path \in Units, q \in TagPaths :
         /\ NodeAt(root, path).name = "a"
         /\ Carries(path, {"title"})
         /\ ChildOf(path, q)
         /\ Len(NodeAt(root, path).children) = 1
         /\ NodeAt(root, q).name = "p"
         /\ Carries(q, {"title"})
         /\ q \notin Units

(***************************************************************************)
(* The payload codec's claims.                                             *)
(***************************************************************************)
\* the fragment has a character that is not white space
NonBlank(f) == \E i \in DOMAIN f : f[i] \notin {" ", "\n"}

\* the fragment from its first to its last character that is not white space
Stripped(f) ==
    LET solid == {i \in DOMAIN f : f[i] \notin {" ", "\n"}}
    IN SubSeq(f, CHOOSE i \in solid : \A j \in solid : i <= j,
                 CHOOSE i \in solid : \A j \in solid : i >= j)

\* the indices (from 0) of the units with a fragment that is not blank
Sent == {i - 1 : i \in {j \in DOMAIN fragments : NonBlank(fragments[j])}}

\* Decoding gives back exactly the units sent, each with its fragment
\* trimmed; a blank unit has no chunk and no mapping entry.
RoundTrip ==
    /\ DOMAIN translations = Sent
    /\ \A i \in Sent : translations[i] = Stripped(fragments[i + 1])
    /\ {mapping[j].index : j \in DOMAIN mapping} = Sent
    /\ \A j \in DOMAIN payload :
         IsOpenTag(payload[j]) => ParseInt(payload[j]) \in Sent

\* The only chunk delimiters of the response are those the encoder wrote
\* around the fragments: neither a fragment nor the text the model added
\* holds one.
OnlyOwnDelimiters ==
    Cardinality({j \in DOMAIN response :
                    IsOpenTag(response[j]) \/ response[j] = "</chunk>"})
        = 2 * Len(mapping)

\* C21 as stated: whatever the fragments and whatever text the model puts
\* between the chunks, decoding the encoded payload yields exactly the
\* indices of the units with a non-blank fragment, each mapped to its
\* fragment trimmed.
C21_RoundTripAnyStrayText == kpc = "parsed" => RoundTrip

\* C21: when neither the fragments nor the text the model puts between the
\* chunks hold a chunk delimiter, decoding the encoded payload yields
\* exactly the indices of the units with a non-blank fragment, each mapped
\* to its fragment trimmed of surrounding white space; a unit with an empty
\* or blank fragment gets no chunk and no mapping entry.
C21_RoundTrip == (kpc = "parsed" /\ OnlyOwnDelimiters) => RoundTrip

\* a blank unit and a unit with white space around its text were encoded,
\* the model added text of its own, and the answer was decoded
C21_Witness ==
    /\ kpc = "parsed"
    /\ OnlyOwnDelimiters
    /\ Len(response) > Len(payload)
    /\ \E i, j \in DOMAIN fragments :
         /\ ~NonBlank(fragments[i]) /\ fragments[i] # <<>>
         /\ NonBlank(fragments[j]) /\ Stripped(fragments[j]) # fragments[j]
         /\ translations[j - 1] = Stripped(fragments[j])

(***************************************************************************)
(* The validator's claims.                                                 *)
(***************************************************************************)
Validated == validation.reason # "none"

\* both fragments are one text node and nothing else
TextOnly ==
    /\ vTranslated.type = "root"
    /\ Len(vSource.children) = 1 /\ vSource.children[1].type = "text"
    /\ Len(vTranslated.children) = 1 /\ vTranslated.children[1].type = "text"

\* The texts of the text-only fragments (they have no white space at their
\* ends), their lengths, and what they hold.
SourceText == vSource.children[1].data
TargetText == vTranslated.children[1].data
HoldsCJK ==
    \/ \E i \in DOMAIN SourceText : IsCJK(SourceText[i])
    \/ \E i \in DOMAIN TargetText : IsCJK(TargetText[i])
HoldsSpace == \E i \in DOMAIN SourceText : SourceText[i] = 32

\* lo[1]/lo[2] <= targetLen/sourceLen <= hi[1]/hi[2]
RatioWithin(lo, hi) ==
    /\ lo[1] * Len(SourceText) <= lo[2] * Len(TargetText)
    /\ hi[2] * Len(TargetText) <= hi[1] * Len(SourceText)
RatioBelow(lo) == lo[2] * Len(TargetText) < lo[1] * Len(SourceText)
RatioAbove(hi) == hi[2] * Len(TargetText) > hi[1] * Len(SourceText)

\* the verdict is by the bounds lo and hi, the reason names the side
JudgedBy(lo, hi) ==
    /\ validation.isValid <=> RatioWithin(lo, hi)
    /\ RatioBelow(lo) => validation.reason = "Text too short"
    /\ RatioAbove(hi) => validation.reason = "Text too long"

\* C22 as stated: a text-only fragment with a source text longer than 5
\* that holds white space is judged by the bounds 0.3 and 5.0 without CJK
\* and by 0.1 and 8.0 with CJK.
C22_RatioBoundsAsStated ==
    (Validated /\ TextOnly /\ Len(SourceText) > 5 /\ HoldsSpace) =>
        IF HoldsCJK THEN JudgedBy(<<1, 10>>, <<8, 1>>)
        ELSE JudgedBy(<<3, 10>>, <<5, 1>>)

\* C22: validateChunk with its default options, on a text-only fragment
\* whose source text is longer than 5 and whose translated text is not
\* empty, returns valid exactly when 0.4 <= targetLen/sourceLen <= 2.5
\* without a CJK character, and when 0.1 <= targetLen/sourceLen <= 8.0 with
\* a CJK character in source or target; otherwise it is invalid with a
\* reason naming too short or too long.  A ratio of 0.15 passes with CJK
\* and fails without.
C22_RatioBounds ==
    (Validated /\ TextOnly /\ Len(SourceText) > 5 /\ Len(TargetText) > 0) =>
        /\ IF HoldsCJK THEN JudgedBy(<<1, 10>>, <<8, 1>>)
           ELSE JudgedBy(<<4, 10>>, <<25, 10>>)
        /\ (Len(SourceText) = 20 /\ Len(TargetText) = 3) =>
              (validation.isValid <=> HoldsCJK)

\* a translation at ratio 0.15 with a CJK character was found valid
C22_Witness ==
    /\ Validated /\ TextOnly
    /\ Len(SourceText) = 20 /\ Len(TargetText) = 3
    /\ HoldsCJK
    /\ validation.isValid

\* the tags of fragment f with name n, and its (tag, attribute, value)
\* triples t over href, src, class and id, each by its place in the tree
TagsNamed(f, n) ==
    {p \in PathsUnder(f, <<>>) :
        NodeAt(f, p).type = "tag" /\ NodeAt(f, p).name = n}
TriplesEqual(f, t) ==
    {pk \in PathsUnder(f, <<>>) \X {"href", "src", "class", "id"} :
        /\ NodeAt(f, pk[1]).type = "tag"
        /\ pk[2] \in DOMAIN NodeAt(f, pk[1]).attribs
        /\ <<NodeAt(f, pk[1]).name, pk[2], NodeAt(f, pk[1]).attribs[pk[2]]>> = t}
NamesIn(f) ==
    {NodeAt(f, p).name : p \in {q \in PathsUnder(f, <<>>) : NodeAt(f, q).type = "tag"}}
TriplesIn(f) ==
    {<<NodeAt(f, pk[1]).name, pk[2], NodeAt(f, pk[1]).attribs[pk[2]]>> :
        pk \in {x \in PathsUnder(f, <<>>) \X {"href", "src", "class", "id"} :
                   NodeAt(f, x[1]).type = "tag"
                   /\ x[2] \in DOMAIN NodeAt(f, x[1]).attribs}}

\* the text checks, which come first, let the pair through
TextPassed ==
    validation.reason \notin
        {"Translation is not a string", "Failed to parse HTML",
         "Translation text is empty", "Text too short", "Text too long"}

\* C23: a translated fragment passes only if every tag name has the same
\* number of tags in source and translation and the (tag, attribute, value)
\* triples over href, src, class and id are the same multiset in both; once
\* the text checks are passed, a source tag with a differing count is
\* reported as a tag mismatch and, the source counts being met, a tag name
\* absent from the source as a hallucinated tag.
C23_StructuralCheck ==
    Validated =>
        /\ validation.isValid =>
             /\ vTranslated.type = "root"
             /\ \A n \in NamesIn(vSource) \cup NamesIn(vTranslated) :
                  Cardinality(TagsNamed(vSource, n))
                      = Cardinality(TagsNamed(vTranslated, n))
             /\ \A t \in TriplesIn(vSource) \cup TriplesIn(vTranslated) :
                  Cardinality(TriplesEqual(vSource, t))
                      = Cardinality(TriplesEqual(vTranslated, t))
        /\ TextPassed =>
             IF \E n \in NamesIn(vSource) :
                    Cardinality(TagsNamed(vSource, n))
                        # Cardinality(TagsNamed(vTranslated, n))
             THEN validation.reason = "Tag mismatch"
             ELSE (NamesIn(vTranslated) \ NamesIn(vSource) # {}) =>
                      validation.reason = "Hallucinated tag"

\* a translation with the tags of its source and a link to another place
\* was rejected
C23_Witness ==
    /\ Validated
    /\ vTranslated.type = "root"
    /\ ~validation.isValid
    /\ TextPassed
    /\ \A n \in NamesIn(vSource) \cup NamesIn(vTranslated) :
         Cardinality(TagsNamed(vSource, n)) = Cardinality(TagsNamed(vTranslated, n))
    /\ <<"a", "href", "/x">> \in TriplesIn(vSource)
    /\ <<"a", "href", "/y">> \in TriplesIn(vTranslated)

(***************************************************************************)
(* The claims of attribute restoration.                                    *)
(***************************************************************************)
\* source and translation have the same tag names in document order
SameTagSequence ==
    LET s == GetFlatTags(sourceRoot)
        t == GetFlatTags(translatedRoot)
    IN Len(s) = Len(t) /\ \A i \in DOMAIN s : s[i].name = t[i].name

\* C24: when source and translation have the same sequence of tag names,
\* every tag of the output of restoreAttributes carries the source tag's
\* attributes, with the translated value for the alt, title, placeholder
\* and aria-label the translated tag has: an attribute of the source that
\* is not of these four keeps its source value whatever the translation
\* did to it, one of the four that the translation dropped is restored,
\* and an attribute that the source does not have and that is not of the
\* four is removed; names and text are those of the translation.
C24_AttributesRestored ==
    (rpc = "restored" /\ SameTagSequence) =>
        LET s == GetFlatTags(sourceRoot)
            t == GetFlatTags(translatedRoot)
            out == GetFlatTags(restored)
            four == {"alt", "title", "placeholder", "aria-label"}
        IN /\ Len(out) = Len(t)
           /\ ExtractText(restored) = ExtractText(translatedRoot)
           /\ \A i \in DOMAIN out :
                /\ out[i].name = t[i].name
                /\ \A k \in DOMAIN t[i].attribs \cap four :
                     k \in DOMAIN out[i].attribs
                     /\ out[i].attribs[k] = t[i].attribs[k]
                /\ \A k \in DOMAIN s[i].attribs \ (DOMAIN t[i].attribs \cap four) :
                     k \in DOMAIN out[i].attribs
                     /\ out[i].attribs[k] = s[i].attribs[k]
                /\ \A k \in DOMAIN out[i].attribs :
                     k \in DOMAIN s[i].attribs
                     \/ k \in DOMAIN t[i].attribs \cap four

\* the translation changed the href, added an aria-label and an attribute
\* of no list, and dropped the alt of the image: the output has the source
\* href, the new aria-label, the alt back, and not the added attribute
C24_Witness ==
    /\ rpc = "restored"
    /\ SameTagSequence
    /\ Len(GetFlatTags(sourceRoot)) = 2
    /\ LET s == GetFlatTags(sourceRoot)
           t == GetFlatTags(translatedRoot)
           out == GetFlatTags(restored)
       IN /\ s[1].attribs = [href |-> "/x"]
          /\ t[1].attribs = AttribsWith("/y", "Libelle", "1")
          /\ out[1].attribs = AttribsWith("/x", "Libelle", Absent)
          /\ s[2].attribs = [alt |-> "Logo"]
          /\ t[2].attribs = NoAttribs
          /\ out[2].attribs = [alt |-> "Logo"]

(***************************************************************************)
(* Properties of link localization (SpecLinks).                            *)
(***************************************************************************)
LinkPaths == PathsUnder(linkTree, <<>>)
AnchorPaths ==
    {p \in LinkPaths : LET n == NodeAt(linkTree, p)
                       IN n.name = "a" /\ "href" \in DOMAIN n.attribs}
HrefAt(tree, p) == NodeAt(tree, p).attribs.href
Localized == lpc = "done"

\* the hrefs the documentation says are skipped
HasScheme(href) == StartsWith(href, SchemeParts)
ResolvesToAsset(href) ==
    ExtName(ParseURL(href, BaseOf(relativePagePath)).path) \notin {"", ".html"}
Skippable(href) ==
    \/ StartsWith(href, HashParts)
    \/ StartsWith(href, {"mailto:", "tel:"})
    \/ HasScheme(href)
    \/ StartsWith(href, {"//"})
    \/ ResolvesToAsset(href)
LowerCaseScheme(href) == HasScheme(href) => StartsWith(href, LowerSchemeParts)

\* the tree without the hrefs of its anchors
RECURSIVE WithoutAnchorHrefs(_)
WithoutAnchorHrefs(node) ==
    LET own == IF node.name = "a" /\ "href" \in DOMAIN node.attribs
               THEN [node EXCEPT !.attribs = [@ EXCEPT !["href"] = <<>>]]
               ELSE node
    IN [own EXCEPT !.children =
            [i \in DOMAIN @ |-> WithoutAnchorHrefs(@[i])]]
OnlyAnchorHrefsChange ==
    WithoutAnchorHrefs(linked) = WithoutAnchorHrefs(linkTree)

\* C25: when processRelativeLinks has returned, every anchor whose href
\* starts with #, mailto: or tel:, has an explicit scheme, is
\* protocol-relative or resolves to a path with an extension other than
\* .html has the href it had, and the tree differs from the tree handed
\* over in nothing but hrefs of anchors.
C25_SkippedLinksUnchanged ==
    Localized =>
        /\ \A p \in AnchorPaths :
              Skippable(HrefAt(linkTree, p)) =>
                  HrefAt(linked, p) = HrefAt(linkTree, p)
        /\ OnlyAnchorHrefsChange

\* the same for the hrefs whose scheme, if they have one, is in lower case
C25_LowerCaseSchemes ==
    Localized =>
        /\ \A p \in AnchorPaths :
              LET href == HrefAt(linkTree, p)
              IN Skippable(href) /\ LowerCaseScheme(href) =>
                     HrefAt(linked, p) = href
        /\ OnlyAnchorHrefsChange

\* the path of the href followed from the directory of the page (from the
\* site root after a leading slash): "." names the same directory, ".."
\* the one above, and there is none above the site root
MinOf(S) == CHOOSE i \in S : \A j \in S : i <= j
Positions(segments, s) == {i \in DOMAIN segments : segments[i] = s}
RECURSIVE Cancel(_)
Cancel(segments) ==
    LET dots == Positions(segments, ".")
        ups == Positions(segments, "..")
    IN IF dots # {}
       THEN Cancel(SubSeq(segments, 1, MinOf(dots) - 1)
                   \o SubSeq(segments, MinOf(dots) + 1, Len(segments)))
       ELSE IF ups = {} THEN segments
       ELSE IF MinOf(ups) = 1 THEN Cancel(Tail(segments))
       ELSE Cancel(SubSeq(segments, 1, MinOf(ups) - 2)
                   \o SubSeq(segments, MinOf(ups) + 1, Len(segments)))
AsDirectory(segments) ==
    IF segments # <<>> /\ segments[Len(segments)] \in {".", ".."}
    THEN segments \o <<"">> ELSE segments
Resolved(href) ==
    LET body == BodyOf(href)
        page == Split(ReplaceBackslashes(relativePagePath))
        dir == SubSeq(page, 1, Len(page) - 1)
    IN IF body = <<>> THEN page
       ELSE IF Head(body) = "/" THEN Cancel(AsDirectory(Tail(Split(body))))
       ELSE Cancel(AsDirectory(dir \o Split(body)))
QueryAndFragment(href) ==
    SelectSeq(href, LAMBDA part : part \in SearchParts \cup HashParts)

\* C26: when processRelativeLinks has returned, every anchor whose href is
\* none of the skipped ones carries "/" and the target language, then the
\* path the href resolves to from the page's own path, then the query
\* string and the fragment of the href.
C26_LocalizedHref ==
    Localized =>
        \A p \in AnchorPaths :
            LET href == HrefAt(linkTree, p)
            IN ~Skippable(href) =>
                   HrefAt(linked, p) = <<"/", targetLang>>
                       \o Pathname(Resolved(href)) \o QueryAndFragment(href)

\* on blog/post.html, ../../d/e.html has become /fr/d/e.html
C26_Witness ==
    /\ Localized
    /\ relativePagePath = <<"blog", "/", "post.html">>
    /\ targetLang = "fr"
    /\ \E p \in AnchorPaths :
          /\ HrefAt(linkTree, p) = <<"..", "/", "..", "/", "d", "/", "e.html">>
          /\ HrefAt(linked, p) = <<"/", "fr", "/", "d", "/", "e.html">>

(***************************************************************************)
(* Properties of the setup of the plugin (SpecPipeline).                   *)
(***************************************************************************)
SetupFailed == plugin \in {SourceLanguageError, TargetLanguagesError}
LacksSourceLanguage == optGiven.sourceLanguage \in {"undefined", "empty string"}
LacksTargetLanguages == optGiven.targetLanguages \in {"undefined", "string"}

\* the cache was not read, written or flushed, the queue has got no task
\* and no hook has begun or called the model
NothingStarted ==
    /\ ~cacheLoaded
    /\ fragmentCache = EmptyCache
    /\ flushes = <<>>
    /\ queue = <<>>
    /\ activeCount = 0
    /\ \A p \in Pages : hpc[p] = "idle" /\ chunks[p] = <<>> /\ ~calledModel[p]

BAdded(t) == bstate[t] # "new"
BStarted(t) == \E i \in DOMAIN startOrder : startOrder[i] = t
StartedOnce ==
    \A i, j \in DOMAIN startOrder : startOrder[i] = startOrder[j] => i = j
NoSlotIdle == Len(queue) > 0 => Cardinality(HoldingSlot) >= concurrency
BLiveness ==
    /\ \A t \in Tasks : BAdded(t) ~> (bpromise[t] # <<"pending">>)
    /\ \A t \in Tasks : BAdded(t) ~> BStarted(t)
    /\ [](StartedOnce /\ NoSlotIdle)

\* C28: when every started task settles, the promise returned by every add
\* call settles in the end and every added task is started, once; and at
\* any time a task waits, `concurrency` tasks hold the slots: started and
\* not yet through their finally callback.
C28_BoundedLiveness == BLiveness

\* the same as long as no task function throws synchronously
C28_LivenessWithoutThrow ==
    [](\A t \in Tasks : bstate[t] # "thrown") => BLiveness

(***************************************************************************)
(* The lazy load of the cache (SpecPipeline).                              *)
(***************************************************************************)
\* loadCache of the hook call of page p assigns fragmentCache in this step
LoadAssigns(p) == hpc[p] = "loading" /\ hpc'[p] # "loading"

\* C29: the cache is loaded at most once in a run: whenever a loadCache
\* assigns the in-memory map, none has assigned it before and the map has
\* not received an entry yet.
C29_LoadedOnce ==
    [][\A p \in Pages :
          LoadAssigns(p) => ~cacheLoaded /\ fragmentCache = EmptyCache]_vars

(***************************************************************************)
(* Properties of the merge of a translation (SpecMerge).                   *)
(***************************************************************************)
\* the unit was sent as outer HTML and the translation is its one tag
SentAsOuter == HasTranslatableAttributes(blockNode)
TranslatedTags == SelectSeq(mParsed.children, LAMBDA c : c.type = "tag")
TranslatedTag == TranslatedTags[1]
AllowListed == TRANSLATABLE_ATTRS \cap DOMAIN TranslatedTag.attribs

\* the node has the children of the translated tag, the translated values
\* of the allow-listed attributes and the source values of the others,
\* and the translated tag is not a child of the node
OuterMode ==
    /\ merged.children = TranslatedTag.children
    /\ DOMAIN merged.attribs = DOMAIN blockNode.attribs \cup AllowListed
    /\ \A k \in AllowListed : merged.attribs[k] = TranslatedTag.attribs[k]
    /\ \A k \in DOMAIN blockNode.attribs \ AllowListed :
          merged.attribs[k] = blockNode.attribs[k]
    /\ \A i \in DOMAIN merged.children : merged.children[i] # TranslatedTag

\* C30: when the page hook has merged the translation of a unit that has a
\* translatable attribute, the unit is reconstructed in outer mode.
C30_PipelineOuterMode ==
    (mpc = "applied" /\ SentAsOuter) => OuterMode

\* the same for a call that passes useOuter = true
C30_DirectOuterMode ==
    (mpc = "outer" /\ SentAsOuter) => OuterMode

\* ---- C31 ----
\* the list a block named pre or code, and any other block, is to go to
ListByName(b) == IF b.name \in {"pre", "code"} THEN "code" ELSE "standard"

\* the list the tasks of chunk k of page p were taken from
ListOf(p, k) == blockTaskMap[p][chunks[p][k].blocks[1]][2]

\* the tasks of each list are submitted in document order
ListsInDocumentOrder ==
    \A p \in Pages : \A k, j \in DOMAIN chunks[p] :
        \A i \in DOMAIN chunks[p][k].blocks : \A h \in DOMAIN chunks[p][j].blocks :
            (ListOf(p, k) = ListOf(p, j) /\ (k < j \/ (k = j /\ i < h)))
                => chunks[p][k].blocks[i] < chunks[p][j].blocks[h]

\* C31: every block the cache does not resolve is in one of the two task
\* lists, the code tasks when it is named pre or code and the standard tasks
\* otherwise, and each list keeps document order.
C31_RoutedByName ==
    /\ \A p \in Pages : \A i \in DOMAIN blockTaskMap[p] :
          blockTaskMap[p][i][1] = "task"
              => blockTaskMap[p][i] = <<"task", ListByName(PageBlocks[p][i])>>
    /\ ListsInDocumentOrder

\* what the code does: the list is chosen by isCodeBlock
C31_RoutedByIsCodeBlock ==
    /\ \A p \in Pages : \A i \in DOMAIN blockTaskMap[p] :
          blockTaskMap[p][i][1] = "task"
              => blockTaskMap[p][i] =
                    <<"task", IF IsCodeBlock(PageBlocks[p][i]) THEN "code" ELSE "standard">>
    /\ ListsInDocumentOrder

\* ---- C32 ----
\* the hook call of page p has returned without a record and without a call
\* of the model, a chunk or a pass
LeftAlone(p) ==
    /\ records[p] = <<>>
    /\ generatedPages[p] = {}
    /\ ~calledModel[p]
    /\ chunks[p] = <<>>
    /\ blockTaskMap[p] = <<>>

\* C32: every record the hook returns has a pathname under the prefix of a
\* target language, and the hook called for a page under such a prefix
\* returns no record and calls the model never, whatever the configured
\* languages: the hook applied to its own output stops after one step.
C32_GeneratedPagesLeftAlone ==
    /\ \A p \in Pages : \A i \in DOMAIN records[p] :
          UnderPrefix(Relative(PagesRoot, records[p][i].pathname))
    /\ \A p \in Pages : UnderTargetPrefix(p) => LeftAlone(p)

\* the hook has returned the French record of a page, and the hook called
\* with that record has returned
C32_Witness ==
    /\ hpc[1] = "returned" /\ hpc[5] = "returned"
    /\ rendersLeft[5] = 0
    /\ \E i \in DOMAIN records[1] : records[1][i].pathname = PagePaths[5]
    /\ LeftAlone(5)

\* ---- C33 ----
\* the cache key of block b of page p (index.js:183-185)
Fingerprint(p, b) == ComputeHash(SourceHtml(PageBlocks[p][b]))

\* the blocks of page p whose translation the pass has stored, each with a
\* write of fragmentCache[task.hash][targetLang] (index.js:231-240)
Written(p) == {b \in DOMAIN newTranslationsMap[p] : newTranslationsMap[p][b] # None}

\* the chunks of page p that have called the model
SentChunks(p) == {k \in DOMAIN chunks[p] : chunks[p][k].st # "queued"}

\* C33: within a pass no fingerprint is written to the cache for two units,
\* and no two chunks send units of the same fingerprint to the model.
C33_OncePerFingerprint ==
    \A p \in Pages :
        /\ \A a, b \in Written(p) : a # b => Fingerprint(p, a) # Fingerprint(p, b)
        /\ \A k, j \in SentChunks(p) : k # j =>
              \A a \in BlocksOf(p, k) : \A b \in BlocksOf(p, j) :
                  Fingerprint(p, a) # Fingerprint(p, b)

\* the same for the pages whose units have different source fragments
C33_DistinctFragments ==
    \A p \in Pages :
        (\A a, b \in BlockIds(p) : a # b => Fingerprint(p, a) # Fingerprint(p, b)) =>
            /\ \A a, b \in Written(p) : a # b => Fingerprint(p, a) # Fingerprint(p, b)
            /\ \A k, j \in SentChunks(p) : k # j =>
                  \A a \in BlocksOf(p, k) : \A b \in BlocksOf(p, j) :
                      Fingerprint(p, a) # Fingerprint(p, b)

\* ---- C34 ----
\* both validators have judged the pair of plain texts
BothJudged == TextOnly /\ Validated /\ safety.reason # "none"

\* C34: for every pair of plain-text strings the text-mode validator and
\* the fragment-mode validator, with their default options, return the same
\* verdict.
C34_SameVerdict == BothJudged => (safety.isValid = validation.isValid)

\* C34 as amended: for a source that is not empty, what the fragment-mode
\* validator accepts the text-mode validator accepts too; the verdicts are
\* the same when the source is at most 5 long, and when it is longer, holds
\* a space and either text holds a CJK character; the text-mode validator
\* alone accepts a longer source without a space whatever the ratio, and
\* rejects an empty source.
C34_FragmentModeStricter ==
    BothJudged =>
        /\ SourceText # <<>> =>
              /\ validation.isValid => safety.isValid
              /\ Len(SourceText) <= MinLengthThreshold => safety.isValid = validation.isValid
              /\ (HoldsSpace /\ HoldsCJK) => safety.isValid = validation.isValid
              /\ (~HoldsSpace /\ TargetText # <<>>) => safety.isValid
        /\ SourceText = <<>> => ~safety.isValid

\* a source with a space, 10 long, and a translation 4 long: ratio 0.4,
\* accepted by both
C34_Witness ==
    /\ BothJudged
    /\ HoldsSpace /\ ~HoldsCJK
    /\ Len(SourceText) = 10 /\ Len(TargetText) = 4
    /\ validation.isValid /\ safety.isValid

\* ---- C35 ----
\* the hook call of page p is under way
UnderWay(p) == hpc[p] \in {"loading", "batch", "saving"}

\* the chunk tasks of page p that have not ended
Pending(p) == {k \in DOMAIN chunks[p] : chunks[p][k].st \in {"queued", "call"}}

\* C35: whatever the outcomes of the model calls (an error, a complete,
\* incomplete or invalid answer) and of the reads and writes of the cache
\* file, no outcome ends or blocks a hook call: a call is at one of its
\* awaits or has returned, and while it awaits its chunk tasks one of them
\* is pending, each waiting one is in the queue and a model call is in
\* flight whose return, however it ends, gives the slot back.
C35_HookReturns ==
    \A p \in Pages :
        /\ hpc[p] \in {"idle", "loading", "batch", "saving", "returned"}
        /\ hpc[p] = "batch" =>
              /\ Pending(p) # {}
              /\ \A k \in Pending(p) : chunks[p][k].st = "queued" =>
                    /\ \E i \in DOMAIN queue : queue[i] = <<p, k>>
                    /\ InFlight # {}
        /\ hpc[p] # "batch" => Pending(p) = {}

\* a hook call has returned although the cache file could not be read, a
\* chunk failed after its last call and no write of the cache file succeeded
C35_Witness ==
    \E p \in Pages :
        /\ hpc[p] = "returned"
        /\ calledModel[p]
        /\ cacheFile = <<"unreadable">>
        /\ fragmentCache # EmptyCache
        /\ \E l \in OtherTargets : RecordsFor(p, l) = {}

\* validateChunk returns an invalid result when parseHTML throws
C35_ParseFailureInvalid ==
    (Validated /\ (vSource = Unparsable \/ vTranslated = Unparsable)) =>
        (~validation.isValid /\ validation.reason \in
            {"Failed to parse HTML", "Translation is not a string"})

\* ---- C36 ----
\* path a comes before path b in depth-first document order
RECURSIVE DocBefore(_, _)
DocBefore(a, b) ==
    IF a = <<>> THEN b # <<>>
    ELSE IF b = <<>> THEN FALSE
    ELSE IF Head(a) # Head(b) THEN Head(a) < Head(b)
    ELSE DocBefore(Tail(a), Tail(b))

\* C36: the units are listed in depth-first document order and no unit is
\* another unit, an ancestor or a descendant of another unit.
C36_OrderedDisjointUnits ==
    classified =>
        \A i, j \in DOMAIN blocks : i < j =>
            /\ DocBefore(blocks[i], blocks[j])
            /\ ~Within(blocks[i], blocks[j])
            /\ ~Within(blocks[j], blocks[i])

\* three units at two depths, and a unit that holds an element which would
\* be a unit by itself
C36_Witness ==
    /\ classified
    /\ Len(blocks) >= 3
    /\ \E i, j \in DOMAIN blocks : Len(blocks[i]) # Len(blocks[j])
    /\ \E i \in DOMAIN blocks : \E q \in TagPaths :
          /\ Below(blocks[i], q)
          /\ NodeAt(root, q).name = "p"

\* ---- C37 ----
\* the node is inside the subtree of a tag of the skip set
InSkipped(path) ==
    \E q \in Paths : Below(q, path) /\ NodeAt(root, q).name \in SKIP_TAGS

\* the units the node lies in
UnitsAround(path) == {u \in Units : Below(u, path)}

\* C37: every text node with a character that is not white space and
\* outside the skip-set subtrees lies inside exactly one unit.
C37_Coverage ==
    classified =>
        \A path \in Paths :
            (IsText(path) /\ ~InSkipped(path)) => Cardinality(UnitsAround(path)) = 1

\* what the code gives: such a text node lies in at most one unit, and in
\* one when its parent is a semantic or a container tag
C37_CoverageUnderBlockTags ==
    classified =>
        \A path \in Paths :
            (IsText(path) /\ ~InSkipped(path)) =>
                /\ Cardinality(UnitsAround(path)) <= 1
                /\ \A q \in TagPaths :
                      (/\ ChildOf(q, path)
                       /\ NodeAt(root, q).name \in SEMANTIC_BLOCKS \cup CONTAINER_BLOCKS)
                          => Cardinality(UnitsAround(path)) = 1

\* ---- C38 ----
\* the chunks of page p made of the tasks of a list, in the order of their
\* submission, and their blocks one after the other
ChunksOfList(p, list) ==
    SelectSeq([k \in DOMAIN chunks[p] |-> k], LAMBDA k : ListOf(p, k) = list)

RECURSIVE BlocksInOrder(_, _)
BlocksInOrder(p, ks) ==
    IF ks = <<>> THEN <<>>
    ELSE chunks[p][Head(ks)].blocks \o BlocksInOrder(p, Tail(ks))

\* executeBatch has been called for the list in the pass of page p
ListSubmitted(p, list) ==
    /\ hpc[p] \in {"batch", "saving"}
    /\ list = "standard" \/ phase[p] = "code" \/ hpc[p] = "saving"

\* the least number of chunks of at most c units that hold n units
LeastCount(n, c) == CHOOSE m \in 0..n : m * c >= n /\ (m = 0 \/ (m - 1) * c < n)

\* C38: the tasks of a list are split into chunks that, one after the
\* other, are the list itself; every chunk holds between 1 and chunkSize
\* units; there are ceil(n / chunkSize) chunks, and each is one task of the
\* queue until it is started.
C38_Chunking ==
    /\ chunkSize >= 1
    /\ \A p \in Pages : \A list \in {"standard", "code"} :
          ListSubmitted(p, list) =>
              LET ks == ChunksOfList(p, list)
                  tasks == TasksOf(blockTaskMap[p], list)
              IN /\ BlocksInOrder(p, ks) = tasks
                 /\ \A i \in DOMAIN ks :
                       /\ Len(chunks[p][ks[i]].blocks) >= 1
                       /\ Len(chunks[p][ks[i]].blocks) <= chunkSize
                 /\ Len(ks) = LeastCount(Len(tasks), chunkSize)
    /\ \A p \in Pages : \A k \in DOMAIN chunks[p] :
          Cardinality({i \in DOMAIN queue : queue[i] = <<p, k>>})
              = IF chunks[p][k].st = "queued" THEN 1 ELSE 0

\* three standard tasks in chunks of two and one, the second waiting in
\* the queue
C38_Witness ==
    \E p \in Pages :
        /\ hpc[p] = "batch" /\ chunkSize = 2
        /\ Len(TasksOf(blockTaskMap[p], "standard")) = 3
        /\ Len(chunks[p]) = 2
        /\ Len(chunks[p][1].blocks) = 2 /\ Len(chunks[p][2].blocks) = 1
        /\ chunks[p][2].st = "queued"

\* ---- C39 ----
\* the tasks of the pass, and the number of records the hook has dealt with
XTasks == TextTasks(textInput)
Consumed == Len(generator.yielded) - (IF generator.pc = "yield" THEN 1 ELSE 0)

\* the task a labelled translation was returned for: the one at its place
\* in the chunk of its call
TaskOf(v) == (v[2] - 1) * textInput.chunkSize + v[3]

\* C39: the generator yields one record per chunk in chunk order, each
\* with as many results as its chunk has tasks, all null or all the
\* translations of that chunk's last call in their order; the consumer's
\* offset is the number of tasks of the records dealt with; and a
\* translation is stored only for the node and under the cache key of the
\* task it was returned for.
C39_TextFlowAligned ==
    /\ \A k \in DOMAIN generator.yielded :
          LET rec == generator.yielded[k]
              chunk == ChunkAt(XTasks, (k - 1) * textInput.chunkSize, textInput.chunkSize)
          IN /\ rec.chunkIndex = k
             /\ Len(rec.results) = Len(chunk)
             /\ \/ \A r \in DOMAIN rec.results : rec.results[r] = None
                \/ \A r \in DOMAIN rec.results :
                      rec.results[r] = <<"translated", k, r, "good">>
    /\ Len(generator.yielded) <= LeastCount(Len(XTasks), textInput.chunkSize)
    /\ generator.pc = "done" =>
          Len(generator.yielded) = LeastCount(Len(XTasks), textInput.chunkSize)
    /\ consumer.offset = Min(Consumed * textInput.chunkSize, Len(XTasks))
    /\ \A n \in DOMAIN consumer.ntm : consumer.ntm[n] # None =>
          /\ TaskOf(consumer.ntm[n]) \in DOMAIN XTasks
          /\ XTasks[TaskOf(consumer.ntm[n])].originalIndex = n
    /\ \A key \in DOMAIN consumer.cache : consumer.cache[key][2] > 0 =>
          /\ TaskOf(consumer.cache[key]) \in DOMAIN XTasks
          /\ XTasks[TaskOf(consumer.cache[key])].text = key[1]

\* a page of three nodes, the first cached: the first chunk ran out of
\* retries and its record holds a null, the second was translated and its
\* translation is stored for the third node
C39_Witness ==
    /\ generator.pc = "done"
    /\ Len(textInput.nodes) = 3 /\ textInput.retries = 1
    /\ Len(XTasks) = 2 /\ XTasks[2].originalIndex = 3
    /\ Len(generator.yielded) = 2
    /\ generator.yielded[1].results = <<None>>
    /\ consumer.ntm[2] = None
    /\ consumer.ntm[3] = <<"translated", 2, 1, "good">>
    /\ consumer.offset = 2

\* ---- C40 ----
\* validateChunk's attribute-preservation check of a fragment against the
\* source (part_001:360-404)
AttributeCheck(src, out) == SameCounts(ExtractAttributes(src), ExtractAttributes(out))

\* C40: when source and translation have the same sequence of tag names,
\* the output of restoreAttributes has the source's (tag, attribute, value)
\* triples over href, src, class and id, each as often as the source, and
\* so passes the validator's attribute check; otherwise the output is the
\* translation as it was.
C40_RestoredPassesAttributeCheck ==
    rpc = "restored" =>
        IF SameTagSequence
        THEN /\ AttributeCheck(sourceRoot, restored)
             /\ \A t \in TriplesIn(sourceRoot) \cup TriplesIn(restored) :
                   Cardinality(TriplesEqual(sourceRoot, t))
                       = Cardinality(TriplesEqual(restored, t))
        ELSE restored = translatedRoot

\* the nested fragments of the test: the translation changed the class and
\* the id and would fail the check; the restored fragment passes it
C40_Witness ==
    /\ rpc = "restored"
    /\ SameTagSequence
    /\ <<"div", "class", "orig">> \in TriplesIn(sourceRoot)
    /\ <<"p", "id", "p2">> \in TriplesIn(translatedRoot)
    /\ ~AttributeCheck(sourceRoot, translatedRoot)
    /\ AttributeCheck(sourceRoot, restored)
    /\ restored # translatedRoot

====
